---- MODULE Spec2Model ----
(***************************************************************************)
(* A model of the product-link pipeline of kyndall-content-engine:         *)
(*   - the retail catalog client of src/src/amazon.js (TTL cache, rate     *)
(*     gate, search, enrichment loop),                                     *)
(*   - the brand directory of src/src/brands.js,                           *)
(*   - the description parser of src/src/claude.js,                        *)
(*   - the drafts of src/src/sanity.js and the runs of src/src/index.js    *)
(*     that create them.                                                   *)
(*                                                                         *)
(* JavaScript strings are modelled as sequences of one-character strings,  *)
(* so that trimming, case folding, prefix matching and substring tests are *)
(* computed the way the code computes them.  null, undefined and the empty *)
(* string of a string-valued field are all the empty sequence: the code    *)
(* only ever tests such fields for truthiness.                             *)
(***************************************************************************)
EXTENDS Integers, Sequences, FiniteSets, TLC

VARIABLES
    now,              \* the value Date.now() returns
    ticks,            \* how many times the clock has advanced (bounded)
    config,           \* amazon.js: config.accessKey / secretKey / partnerTag
    cache,            \* amazon.js: const cache = new Map()
    lastRequestTime,  \* amazon.js: let lastRequestTime = 0
    proc,             \* one record per asynchronous caller of amazon.js
    requests,         \* the two most recent fetch() calls of searchAmazonProduct
    calls,            \* the two most recent searchAmazonProduct calls that returned
    ndone,            \* how many searchAmazonProduct calls have returned
    ncalls            \* number of top-level calls started so far (bounded)

VARIABLES
    sanityClient,     \* brands.js: let sanityClient = null (FALSE) or a client
    cachedBrands,     \* brands.js: let cachedBrands = null (<<>>) or <<list>>
    lastFetchTime,    \* brands.js: let lastFetchTime = null (0) or a time
    cachedRecords,    \* the remote records cachedBrands was built from
    brandCall,        \* the position of the caller of brands.js / claude.js
    returned,         \* <<list>>: the list getBrands returned last
    description,      \* the text given to extractProductsFromDescription
    extraction        \* <<e>>: what extractProductsFromDescription did last

VARIABLES
    client,           \* sanity.js: let client = null (FALSE) or a client
    posts,            \* the blogPost documents of the content store, oldest first
    run,              \* index.js: one record per run of processNewContent
    isFirstRun        \* index.js: let isFirstRun = true

amazonVars == <<config, cache, lastRequestTime, proc, requests, calls, ndone, ncalls>>
clockVars == <<now, ticks>>
brandVars == <<sanityClient, cachedBrands, lastFetchTime, cachedRecords>>
contentVars == <<brandVars, brandCall, returned, description, extraction>>
engineVars == <<client, posts, run, isFirstRun>>

----------------------------------------------------------------------------
(* Strings *)

Null == <<>>

Upper == <<"A","B","C","D","E","F","G","H","I","J","K","L","M",
           "N","O","P","Q","R","S","T","U","V","W","X","Y","Z">>
Lower == <<"a","b","c","d","e","f","g","h","i","j","k","l","m",
           "n","o","p","q","r","s","t","u","v","w","x","y","z">>

\* \s of a JavaScript regular expression, and what String.prototype.trim removes
IsSpace(c) == c \in {" ", "\n", "\t", "\r"}

UpperSet == {Upper[i] : i \in 1..26}
LowerSet == {Lower[i] : i \in 1..26}
LowerOf == [c \in UpperSet |-> Lower[CHOOSE i \in 1..26 : Upper[i] = c]]
UpperOf == [c \in LowerSet |-> Upper[CHOOSE i \in 1..26 : Lower[i] = c]]

ToLowerChar(c) == IF c \in UpperSet THEN LowerOf[c] ELSE c
ToUpperChar(c) == IF c \in LowerSet THEN UpperOf[c] ELSE c

\* A sequence given as a function, as a tuple
AsString(f) == SubSeq(f, 1, Len(f))

toLowerCase(s) == AsString([i \in 1..Len(s) |-> ToLowerChar(s[i])])
toUpperCase(s) == AsString([i \in 1..Len(s) |-> ToUpperChar(s[i])])

Min(S) == CHOOSE x \in S : \A y \in S : x <= y

\* The first position from p on that holds no white space (Len(s) + 1 if none)
RECURSIVE SkipSpaces(_, _)
SkipSpaces(s, p) ==
    IF p <= Len(s) /\ IsSpace(s[p]) THEN SkipSpaces(s, p + 1) ELSE p

\* The last position up to p that holds no white space (0 if none)
RECURSIVE SkipSpacesBack(_, _)
SkipSpacesBack(s, p) ==
    IF p >= 1 /\ IsSpace(s[p]) THEN SkipSpacesBack(s, p - 1) ELSE p

trimStart(s) == SubSeq(s, SkipSpaces(s, 1), Len(s))

trimEnd(s) == SubSeq(s, 1, SkipSpacesBack(s, Len(s)))

trim(s) == SubSeq(s, SkipSpaces(s, 1), SkipSpacesBack(s, Len(s)))

\* s.startsWith(t) at offset i (1-based)
MatchesAt(s, i, t) ==
    /\ i >= 1
    /\ i + Len(t) - 1 <= Len(s)
    /\ \A k \in 1..Len(t) : s[i + k - 1] = t[k]

\* s.includes(t)
includes(s, t) ==
    \/ t = <<>>
    \/ \E i \in 1..(Len(s) - Len(t) + 1) : s[i] = t[1] /\ MatchesAt(s, i, t)

----------------------------------------------------------------------------
(* amazon.js: the retail catalog client *)

MIN_REQUEST_INTERVAL_MS == 1100
CACHE_TTL_MS == 86400000

\* Bounds of the model
MaxCalls == 3          \* top-level calls started in one behaviour
MaxTicks == 2          \* clock advances in one behaviour

\* The asynchronous callers that may be inside amazon.js at the same time
Callers == {1, 2}

\* Date.now() when the process starts: any value at least one interval after
\* the initial lastRequestTime = 0
Now0 == 2 * MIN_REQUEST_INTERVAL_MS

\* The clock advances by half an interval, or by a cache TTL less half an
\* interval: two half intervals make an interval, both steps make a TTL.
HalfInterval == MIN_REQUEST_INTERVAL_MS \div 2
TickSteps == {HalfInterval, CACHE_TTL_MS - HalfInterval}

\* Credentials passed to initAmazon: missing or present.
Credentials == {Null, <<"k">>}
PartnerTags == {<<"t","g">>}

\* Search terms: the first two differ only in case and outer whitespace.
TermElf == <<"e","l","f">>
TermElfSpaced == <<" ","E","l","f">>
TermOil == <<"o","i","l">>
SearchTerms == {TermElf, TermElfSpaced, TermOil}

\* What the retail API answers to one request.
FailureKinds == {"http429", "http401", "http500", "malformed", "network"}
Outcomes == {"found", "noItems"} \cup FailureKinds

Asin == <<"B","0","1">>
Price == <<"$","9">>
ImageUrl == <<"i","m","g">>
DefaultPartnerTag == <<"k","y","n","d","a","l","l","a","m","e","s","-","2","0">>
UrlDp == <<"h","t","t","p","s",":","/","/","w","w","w",".","a","m","a","z","o","n",
           ".","c","o","m","/","d","p","/">>
UrlTag == <<"?","t","a","g","=">>

\* The check that takes every configuration for a complete one
isAmazonConfiguredAlways == TRUE

isAmazonConfigured == config.accessKey # Null /\ config.secretKey # Null

getCacheKey(searchTerm) == trim(toLowerCase(searchTerm))

\* getFromCache with an entry still served at the age of CACHE_TTL_MS
getFromCacheLate(searchTerm) ==
    LET key == getCacheKey(searchTerm) IN
    IF key \in DOMAIN cache /\ now - cache[key].timestamp <= CACHE_TTL_MS
    THEN cache[key].data
    ELSE Null

\* The value of getFromCache: cached.data (which may itself be null), or null.
\* A found result r is held as <<r>>, null as <<>>.
getFromCache(searchTerm) ==
    LET key == getCacheKey(searchTerm) IN
    IF key \in DOMAIN cache /\ now - cache[key].timestamp < CACHE_TTL_MS
    THEN cache[key].data
    ELSE Null

\* The cache after saveToCache(searchTerm, data)
saveToCache(searchTerm, data) ==
    LET key == getCacheKey(searchTerm) IN
    [k \in (DOMAIN cache) \cup {key} |->
        IF k = key THEN [data |-> data, timestamp |-> now] ELSE cache[k]]

\* The result record built from the first item of a 2xx response
FoundResult(searchTerm) ==
    [asin |-> Asin,
     title |-> searchTerm,
     price |-> Price,
     imageUrl |-> ImageUrl,
     url |-> UrlDp \o Asin \o UrlTag \o config.partnerTag]

\* HandleResponse without the catch block: a rejected fetch or a body that
\* does not parse propagates to the caller.
HandleResponseNoCatch(outcome, searchTerm) ==
    IF outcome = "found"
    THEN [ret |-> <<FoundResult(searchTerm)>>, raised |-> FALSE,
          save |-> TRUE, data |-> <<FoundResult(searchTerm)>>]
    ELSE IF outcome \in {"malformed", "network"}
    THEN [ret |-> Null, raised |-> TRUE, save |-> FALSE, data |-> Null]
    ELSE [ret |-> Null, raised |-> FALSE, save |-> TRUE, data |-> Null]

\* What searchAmazonProduct does with the answer to its request: the value it
\* returns, whether it raises instead, and the value it saves in the cache.
HandleResponse(outcome, searchTerm) ==
    IF outcome = "found"
    THEN [ret |-> <<FoundResult(searchTerm)>>, raised |-> FALSE,
          save |-> TRUE, data |-> <<FoundResult(searchTerm)>>]
    ELSE \* !response.ok, an empty item list, a body that does not parse
         \* (the catch block), a rejected fetch (the catch block)
         [ret |-> Null, raised |-> FALSE, save |-> TRUE, data |-> Null]

\* SearchStart without the wait of waitForRateLimit: a search that finds no
\* cached result sends its request at once.
SearchStartNoWait(searchTerm) ==
    LET cached == getFromCache(searchTerm) IN
    IF ~isAmazonConfigured
    THEN [kind |-> "return", ret |-> Null, why |-> "unconfigured"]
    ELSE IF cached # Null
    THEN [kind |-> "return", ret |-> cached, why |-> "cached"]
    ELSE [kind |-> "request"]

\* SearchStart with the rate gate ahead of the cache check
SearchStartGateFirst(searchTerm) ==
    LET cached == getFromCache(searchTerm) IN
    IF ~isAmazonConfigured
    THEN [kind |-> "return", ret |-> Null, why |-> "unconfigured"]
    ELSE IF now - lastRequestTime < MIN_REQUEST_INTERVAL_MS
    THEN [kind |-> "sleep",
          wakeAt |-> now + (MIN_REQUEST_INTERVAL_MS - (now - lastRequestTime))]
    ELSE IF cached # Null
    THEN [kind |-> "return", ret |-> cached, why |-> "cached"]
    ELSE [kind |-> "request"]

\* The first synchronous segment of searchAmazonProduct, up to its first
\* suspension: the configuration check, the cache check and the head of
\* waitForRateLimit.
SearchStart(searchTerm) ==
    LET cached == getFromCache(searchTerm) IN
    IF ~isAmazonConfigured
    THEN [kind |-> "return", ret |-> Null, why |-> "unconfigured"]
    ELSE IF cached # Null
    THEN [kind |-> "return", ret |-> cached, why |-> "cached"]
    ELSE IF now - lastRequestTime < MIN_REQUEST_INTERVAL_MS
    THEN [kind |-> "sleep",
          wakeAt |-> now + (MIN_REQUEST_INTERVAL_MS - (now - lastRequestTime))]
    ELSE [kind |-> "request"]

----------------------------------------------------------------------------
(* amazon.js: enrichProductsWithAmazon *)

MaxProductsDefault == 50     \* options.maxProducts = 50

Unknown == <<"U","n","k","n","o","w","n">>

Truthy(s) == s # Null

\* The record pushed by extractProductsFromDescription (claude.js:471-479);
\* the amazon* fields that enrichment adds are absent (null) at first.
MakeProduct(brand, name, type, shopmyUrl, amazonUrl, originalUrl) ==
    [brand |-> brand, name |-> name, type |-> type,
     searchQuery |-> trim(brand \o <<" ">> \o name),
     shopmyUrl |-> shopmyUrl, amazonUrl |-> amazonUrl,
     originalUrl |-> originalUrl,
     amazonAsin |-> Null, amazonPrice |-> Null, amazonTitle |-> Null,
     amazonImageUrl |-> Null]

\* The assignments with one more, which overwrites the name of the record
ApplyResultRename(products, i, ret) ==
    IF ret # Null
    THEN [products EXCEPT ![i] =
            [@ EXCEPT !.amazonUrl = ret[1].url,
                      !.amazonAsin = ret[1].asin,
                      !.amazonPrice = ret[1].price,
                      !.amazonTitle = ret[1].title,
                      !.amazonImageUrl = ret[1].imageUrl,
                      !.name = ret[1].title]]
    ELSE products

\* products[i] after the assignments of amazon.js:339-343
ApplyResult(products, i, ret) ==
    IF ret # Null
    THEN [products EXCEPT ![i] =
            [@ EXCEPT !.amazonUrl = ret[1].url,
                      !.amazonAsin = ret[1].asin,
                      !.amazonPrice = ret[1].price,
                      !.amazonTitle = ret[1].title,
                      !.amazonImageUrl = ret[1].imageUrl]]
    ELSE products

\* product.searchQuery || `${brand !== 'Unknown' ? brand + ' ' : ''}${name}`.trim()
BuildSearchQuery(product) ==
    IF Truthy(product.searchQuery)
    THEN product.searchQuery
    ELSE trim((IF product.brand # Unknown THEN product.brand \o <<" ">> ELSE <<>>)
              \o product.name)

\* The loop without its first check: every record is searched.
SkipsExistingLinkNever(product) == FALSE

\* if (product.amazonUrl) continue
SkipsExistingLink(product) == Truthy(product.amazonUrl)

\* if (!searchQuery || searchQuery === 'Unknown' || searchQuery.length < 3) continue
SkipsQuery(searchQuery) ==
    \/ ~Truthy(searchQuery)
    \/ searchQuery = Unknown
    \/ Len(searchQuery) < 3

\* The for loop of enrichProductsWithAmazon from (1-based) position i on, run
\* until a search has to wait for the rate gate or the network, or the loop
\* ends.  Iterations that skip the record and searches answered from the cache
\* touch no shared state; `searched` lists the positions searched so far.
RECURSIVE EnrichLoop(_, _, _, _)
EnrichLoop(products, i, searched, maxProducts) ==
    IF ~(i <= Len(products) /\ i <= maxProducts)
    THEN [pc |-> "done", products |-> products, i |-> i, searched |-> searched]
    ELSE IF SkipsExistingLink(products[i])
    THEN EnrichLoop(products, i + 1, searched, maxProducts)
    ELSE IF SkipsQuery(BuildSearchQuery(products[i]))
    THEN EnrichLoop(products, i + 1, searched, maxProducts)
    ELSE LET q == BuildSearchQuery(products[i])
             s == SearchStart(q)
         IN IF s.kind = "return"
            THEN EnrichLoop(ApplyResult(products, i, s.ret), i + 1,
                            Append(searched, i), maxProducts)
            ELSE [pc |-> "miss", products |-> products, i |-> i,
                  searched |-> Append(searched, i), q |-> q]

----------------------------------------------------------------------------
(* The callers of amazon.js *)

\* A log that keeps its three most recent entries
Push(log, e) == IF Len(log) < 3 THEN Append(log, e) ELSE <<log[2], log[3], e>>

IdleProc ==
    [pc |-> "idle", op |-> "none", q |-> Null, wakeAt |-> 0, start |-> 0,
     after |-> 0,
     input |-> <<>>, products |-> <<>>, i |-> 0, searched |-> <<>>,
     pending |-> Null, raised |-> FALSE]

\* waitForRateLimit, and the fetch that follows it when no wait is needed
\* (r is the caller's record on entry)
EnterGate(p, r, searchTerm) ==
    LET s == SearchStart(searchTerm) IN
    IF s.kind = "sleep"
    THEN /\ proc' = [proc EXCEPT ![p] =
                [r EXCEPT !.pc = "sleep", !.wakeAt = s.wakeAt,
                          !.q = searchTerm, !.start = now,
                          !.after = ndone]]
         /\ UNCHANGED <<lastRequestTime, requests>>
    ELSE /\ lastRequestTime' = now
         /\ requests' = Push(requests, [q |-> searchTerm, at |-> now, by |-> p])
         /\ proc' = [proc EXCEPT ![p] =
                [r EXCEPT !.pc = "fetch", !.q = searchTerm, !.start = now,
                          !.after = ndone]]

\* initAmazon({accessKey, secretKey, partnerTag}): the value it returns and
\* the configuration it leaves
InitAmazonResult(accessKey, secretKey, partnerTag) ==
    IF accessKey = Null \/ secretKey = Null
    THEN [ret |-> FALSE, config |-> config]
    ELSE [ret |-> TRUE,
          config |-> [accessKey |-> accessKey, secretKey |-> secretKey,
                      partnerTag |-> IF partnerTag # Null THEN partnerTag
                                     ELSE config.partnerTag]]

\* initAmazon is a bootstrap call: it is made before the first search.
initAmazon(accessKey, secretKey, partnerTag) ==
    /\ ncalls = 0
    /\ config' = InitAmazonResult(accessKey, secretKey, partnerTag).config
    /\ UNCHANGED <<cache, lastRequestTime, proc, requests, calls, ndone, ncalls>>
    /\ UNCHANGED clockVars
    /\ UNCHANGED <<contentVars, engineVars>>

\* The clock advances, but not past the time a pending timer is due: a due
\* timer fires first.
Tick(d) ==
    /\ ticks < MaxTicks
    /\ \A p \in Callers : proc[p].pc = "sleep" => now + d <= proc[p].wakeAt
    /\ now' = now + d
    /\ ticks' = ticks + 1
    /\ UNCHANGED amazonVars
    /\ UNCHANGED <<contentVars, engineVars>>

\* A caller starts searchAmazonProduct(searchTerm).
searchAmazonProduct(p, searchTerm) ==
    /\ proc[p].pc = "idle"
    /\ ncalls < MaxCalls
    /\ ncalls' = ncalls + 1
    /\ LET s == SearchStart(searchTerm) IN
       IF s.kind = "return"
       THEN /\ calls' = Push(calls,
                  [q |-> searchTerm, start |-> now, after |-> ndone,
                   seq |-> ndone + 1, net |-> FALSE,
                   ret |-> s.ret, raised |-> FALSE, outcome |-> s.why])
            /\ ndone' = ndone + 1
            /\ proc' = [proc EXCEPT ![p] = [IdleProc EXCEPT !.op = "search"]]
            /\ UNCHANGED <<lastRequestTime, requests>>
       ELSE /\ EnterGate(p, [IdleProc EXCEPT !.op = "search"], searchTerm)
            /\ UNCHANGED <<calls, ndone>>
    /\ UNCHANGED <<config, cache>>
    /\ UNCHANGED clockVars
    /\ UNCHANGED <<contentVars, engineVars>>

\* The timer of waitForRateLimit fires: lastRequestTime = Date.now(), then the
\* request is signed and sent.
TimerFires(p) ==
    /\ proc[p].pc = "sleep"
    /\ now >= proc[p].wakeAt
    /\ lastRequestTime' = now
    /\ requests' = Push(requests, [q |-> proc[p].q, at |-> now, by |-> p])
    /\ proc' = [proc EXCEPT ![p].pc = "fetch"]
    /\ UNCHANGED <<config, cache, calls, ndone, ncalls>>
    /\ UNCHANGED clockVars
    /\ UNCHANGED <<contentVars, engineVars>>

\* The request of caller p is answered (or fails) and the call returns.
Respond(p, outcome) ==
    /\ proc[p].pc = "fetch"
    /\ LET h == HandleResponse(outcome, proc[p].q) IN
       /\ cache' = IF h.save THEN saveToCache(proc[p].q, h.data) ELSE cache
       /\ IF proc[p].op = "search"
          THEN /\ calls' = Push(calls,
                     [q |-> proc[p].q, start |-> proc[p].start,
                      after |-> proc[p].after, seq |-> ndone + 1,
                      net |-> TRUE, ret |-> h.ret, raised |-> h.raised,
                      outcome |-> outcome])
               /\ ndone' = ndone + 1
               /\ proc' = [proc EXCEPT ![p] = [IdleProc EXCEPT !.op = "search"]]
          ELSE /\ proc' = [proc EXCEPT ![p] =
                      IF h.raised
                      THEN [@ EXCEPT !.pc = "idle", !.raised = TRUE]
                      ELSE [@ EXCEPT !.pc = "loop", !.pending = h.ret]]
               /\ UNCHANGED <<calls, ndone>>
    /\ UNCHANGED <<config, lastRequestTime, requests, ncalls>>
    /\ UNCHANGED clockVars
    /\ UNCHANGED <<contentVars, engineVars>>

\* The loop without the limit of maxProducts: it runs to the end of the list.
RunLoopNoLimit(p, r, products, i) ==
    LET e == EnrichLoop(products, i, r.searched, Len(products)) IN
    IF e.pc = "done"
    THEN /\ proc' = [proc EXCEPT ![p] =
                [r EXCEPT !.pc = "idle", !.products = e.products, !.i = e.i,
                          !.searched = e.searched, !.pending = Null]]
         /\ UNCHANGED <<lastRequestTime, requests>>
    ELSE EnterGate(p, [r EXCEPT !.products = e.products, !.i = e.i,
                                !.searched = e.searched, !.pending = Null], e.q)

\* The loop of enrichProductsWithAmazon runs on from position i.
RunLoop(p, r, products, i) ==
    LET e == EnrichLoop(products, i, r.searched, MaxProductsDefault) IN
    IF e.pc = "done"
    THEN /\ proc' = [proc EXCEPT ![p] =
                [r EXCEPT !.pc = "idle", !.products = e.products, !.i = e.i,
                          !.searched = e.searched, !.pending = Null]]
         /\ UNCHANGED <<lastRequestTime, requests>>
    ELSE EnterGate(p, [r EXCEPT !.products = e.products, !.i = e.i,
                                !.searched = e.searched, !.pending = Null], e.q)

\* A caller starts enrichProductsWithAmazon(products).  A run counts as two
\* calls towards MaxCalls.
enrichProductsWithAmazon(p, products) ==
    /\ proc[p].pc = "idle"
    /\ ncalls + 2 <= MaxCalls
    /\ ncalls' = ncalls + 2
    /\ LET r == [IdleProc EXCEPT !.op = "enrich", !.input = products,
                                 !.products = products]
       IN IF ~isAmazonConfigured
          THEN /\ proc' = [proc EXCEPT ![p] = r]
               /\ UNCHANGED <<lastRequestTime, requests>>
          ELSE RunLoop(p, r, products, 1)
    /\ UNCHANGED <<config, cache, calls, ndone>>
    /\ UNCHANGED clockVars
    /\ UNCHANGED <<contentVars, engineVars>>

\* The loop without the await of its search: it runs on while the search is
\* at the network.
EnrichResumeNoAwait(p) ==
    /\ proc[p].pc \in {"loop", "fetch"}
    /\ RunLoop(p, proc[p],
               ApplyResult(proc[p].products, proc[p].i, proc[p].pending),
               proc[p].i + 1)
    /\ UNCHANGED <<config, cache, calls, ndone, ncalls>>
    /\ UNCHANGED clockVars
    /\ UNCHANGED <<contentVars, engineVars>>

\* The awaited search of an enrichment run has resolved: its result is applied
\* and the loop runs on.
EnrichResume(p) ==
    /\ proc[p].pc = "loop"
    /\ RunLoop(p, proc[p],
               ApplyResult(proc[p].products, proc[p].i, proc[p].pending),
               proc[p].i + 1)
    /\ UNCHANGED <<config, cache, calls, ndone, ncalls>>
    /\ UNCHANGED clockVars
    /\ UNCHANGED <<contentVars, engineVars>>

----------------------------------------------------------------------------
(* brands.js: the brand directory *)

CACHE_DURATION_MS == 30 * 60 * 1000

HalfDuration == CACHE_DURATION_MS \div 2

\* The elements of s at the positions in idx, in order
Keep(s, idx) ==
    [k \in 1..Cardinality(idx) |->
        s[CHOOSE i \in idx : Cardinality({j \in idx : j <= i}) = k]]

\* [...new Set(allNames)]: the first occurrence of every value, in order
SetOrder(s) == Keep(s, {i \in 1..Len(s) : \A j \in 1..(i - 1) : s[j] # s[i]})

\* The list left in the order of the records
SortNot(s) == s

\* .sort((a, b) => b.length - a.length): longest first; Array.prototype.sort
\* is stable, entries of one length keep their order
SortByLengthDesc(s) ==
    LET Before(j, i) == \/ Len(s[j]) > Len(s[i])
                        \/ Len(s[j]) = Len(s[i]) /\ j < i
        Place(i) == 1 + Cardinality({j \in 1..Len(s) : Before(j, i)})
    IN [k \in 1..Len(s) |-> s[CHOOSE i \in 1..Len(s) : Place(i) = k]]

\* A record of the remote result: name is a string or null, aliases is null
\* (<<>>) or an array (<<array>>)
BrandRecord(name, aliases) == [name |-> name, aliases |-> aliases]

\* if (brand.name) allNames.push(brand.name)
\* if (brand.aliases && Array.isArray(brand.aliases))
\*     allNames.push(...brand.aliases.filter(a => a))
NamesOf(brand) ==
    (IF Truthy(brand.name) THEN <<brand.name>> ELSE <<>>)
    \o (IF brand.aliases # <<>> THEN SelectSeq(brand.aliases[1], Truthy)
        ELSE <<>>)

RECURSIVE AllNames(_)
AllNames(brands) ==
    IF brands = <<>> THEN <<>>
    ELSE NamesOf(Head(brands)) \o AllNames(Tail(brands))

\* cachedBrands = [...new Set(allNames)].sort((a, b) => b.length - a.length)
NamesAndAliases(brands) == SortByLengthDesc(SetOrder(AllNames(brands)))

FALLBACK_BRANDS == <<
    <<"A","n","a","s","t","a","s","i","a"," ","B","e","v","e","r","l","y"," ","H","i","l","l","s">>,
    <<"M","a","k","e","u","p"," ","B","y"," ","M","a","r","i","o">>,
    <<"P","a","t"," ","M","c","G","r","a","t","h"," ","L","a","b","s">>,
    <<"B","e","n","e","f","i","t"," ","C","o","s","m","e","t","i","c","s">>,
    <<"G","i","o","r","g","i","o"," ","A","r","m","a","n","i">>,
    <<"Y","v","e","s"," ","S","a","i","n","t"," ","L","a","u","r","e","n","t">>,
    <<"C","h","a","r","l","o","t","t","e"," ","T","i","l","b","u","r","y">>,
    <<"K","y","l","i","e"," ","C","o","s","m","e","t","i","c","s">>,
    <<"E","s","t","eacute","e"," ","L","a","u","d","e","r">>,
    <<"E","s","t","e","e"," ","L","a","u","d","e","r">>,
    <<"L","a","u","r","a"," ","M","e","r","c","i","e","r">>,
    <<"N","a","t","a","s","h","a"," ","D","e","n","o","n","a">>,
    <<"L","u","n","a","r"," ","B","e","a","u","t","y">>,
    <<"U","r","b","a","n"," ","D","e","c","a","y">>,
    <<"F","e","n","t","y"," ","B","e","a","u","t","y">>,
    <<"H","u","d","a"," ","B","e","a","u","t","y">>,
    <<"R","a","r","e"," ","B","e","a","u","t","y">>,
    <<"P","a","t"," ","M","c","G","r","a","t","h">>,
    <<"B","o","b","b","i"," ","B","r","o","w","n">>,
    <<"M","i","l","k"," ","M","a","k","e","u","p">>,
    <<"T","o","o"," ","F","a","c","e","d">>,
    <<"C","o","l","o","u","r","P","o","p">>,
    <<"C","o","l","o","u","r","p","o","p">>,
    <<"B","H"," ","C","o","s","m","e","t","i","c","s">>,
    <<"N","Y","X"," ","P","r","o","f","e","s","s","i","o","n","a","l">>,
    <<"T","o","w","e","r"," ","2","8">>,
    <<"T","O","W","E","R"," ","2","8">>,
    <<"H","o","u","r","g","l","a","s","s">>,
    <<"S","m","a","s","h","b","o","x">>,
    <<"M","a","y","b","e","l","l","i","n","e">>,
    <<"G","l","o","s","s","i","e","r">>,
    <<"B","e","n","e","f","i","t">>,
    <<"C","o","v","e","r","G","i","r","l">>,
    <<"C","l","i","n","i","q","u","e">>,
    <<"L","a","n","c","ocirc","m","e">>,
    <<"L","a","n","c","o","m","e">>,
    <<"R","e","v","l","o","n">>,
    <<"M","o","r","p","h","e">>,
    <<"C","h","a","n","e","l">>,
    <<"A","r","m","a","n","i">>,
    <<"T","a","r","t","e">>,
    <<"K","y","l","i","e">>,
    <<"F","e","n","t","y">>,
    <<"K","o","s","a","s">>,
    <<"M","e","r","i","t">>,
    <<"e",".","l",".","f",".">>,
    <<"E",".","L",".","F",".">>,
    <<"N","A","R","S">>,
    <<"D","i","o","r">>,
    <<"S","a","i","e">>,
    <<"I","l","i","a">>,
    <<"I","L","I","A">>,
    <<"M","A","C">>,
    <<"Y","S","L">>,
    <<"e","l","f">>,
    <<"E","L","F">>,
    <<"N","Y","X">>,
    <<"A","B","H">>,
    <<"P","M","G">>,
    <<"C","T">>,
    <<"Y","o","u","t","h"," ","T","o"," ","T","h","e"," ","P","e","o","p","l","e">>,
    <<"P","e","t","e","r"," ","T","h","o","m","a","s"," ","R","o","t","h">>,
    <<"A","u","g","u","s","t","i","n","u","s"," ","B","a","d","e","r">>,
    <<"D","r","."," ","D","e","n","n","i","s"," ","G","r","o","s","s">>,
    <<"F","i","r","s","t"," ","A","i","d"," ","B","e","a","u","t","y">>,
    <<"P","a","u","l","a","'","s"," ","C","h","o","i","c","e">>,
    <<"P","a","u","l","a"," ","C","h","o","i","c","e">>,
    <<"L","a"," ","R","o","c","h","e","-","P","o","s","a","y">>,
    <<"D","r","u","n","k"," ","E","l","e","p","h","a","n","t">>,
    <<"G","o","o","d"," ","M","o","l","e","c","u","l","e","s">>,
    <<"I","T"," ","C","o","s","m","e","t","i","c","s">>,
    <<"A","l","p","y","n"," ","B","e","a","u","t","y">>,
    <<"T","h","e"," ","O","r","d","i","n","a","r","y">>,
    <<"S","u","n","d","a","y"," ","R","i","l","e","y">>,
    <<"G","l","o","w"," ","R","e","c","i","p","e">>,
    <<"D","e","r","m","a","l","o","g","i","c","a">>,
    <<"S","k","i","n"," ","S","m","a","r","t">>,
    <<"S","k","i","n","S","m","a","r","t">>,
    <<"N","e","u","t","r","o","g","e","n","a">>,
    <<"T","o","u","c","h","l","a","n","d">>,
    <<"S","u","p","e","r","g","o","o","p">>,
    <<"H","e","r","b","i","v","o","r","e">>,
    <<"T","i","m","e","l","e","s","s">>,
    <<"K","i","e","h","l","'","s">>,
    <<"K","i","e","h","l","s">>,
    <<"F","a","r","m","a","c","y">>,
    <<"O","r","i","g","i","n","s">>,
    <<"C","e","t","a","p","h","i","l">>,
    <<"B","i","o","d","e","r","m","a">>,
    <<"C","e","r","a","V","e">>,
    <<"T","a","t","c","h","a">>,
    <<"L","a"," ","M","e","r">>,
    <<"Y","e","p","o","d","a">>,
    <<"V","e","r","s","e","d">>,
    <<"A","v","egrave","n","e">>,
    <<"A","v","e","n","e">>,
    <<"F","r","e","s","h">>,
    <<"B","l","i","s","s">>,
    <<"V","i","c","h","y">>,
    <<"S","K","-","I","I">>,
    <<"S","K","I","I">>,
    <<"P","i","x","i">>,
    <<"Y","T","T","P">>,
    <<"F","A","B">>,
    <<"B","e","a","u","t","y"," ","o","f"," ","J","o","s","e","o","n">>,
    <<"T","h","a","n","k"," ","Y","o","u"," ","F","a","r","m","e","r">>,
    <<"H","o","l","i","k","a"," ","H","o","l","i","k","a">>,
    <<"N","a","t","u","r","e"," ","R","e","p","u","b","l","i","c">>,
    <<"P","y","u","n","k","a","n","g"," ","Y","u","l">>,
    <<"B","y"," ","W","i","s","h","t","r","e","n","d">>,
    <<"E","t","u","d","e"," ","H","o","u","s","e">>,
    <<"P","e","a","c","h"," ","&"," ","L","i","l","y">>,
    <<"T","o","n","y"," ","M","o","l","y">>,
    <<"T","O","N","Y","M","O","L","Y">>,
    <<"R","o","u","n","d"," ","L","a","b">>,
    <<"S","o","m","e"," ","B","y"," ","M","i">>,
    <<"D","r","."," ","J","a","r","t","+">>,
    <<"D","r","."," ","J","a","r","t">>,
    <<"D","r"," ","J","a","r","t">>,
    <<"B","a","n","i","l","a"," ","C","o">>,
    <<"I","n","n","i","s","f","r","e","e">>,
    <<"T","o","r","r","i","d","e","n">>,
    <<"S","K","I","N","1","0","0","4">>,
    <<"M","e","d","i","h","e","a","l">>,
    <<"P","e","r","i","p","e","r","a">>,
    <<"H","e","i","m","i","s","h">>,
    <<"I","s","n","t","r","e","e">>,
    <<"D","a","s","i","q","u","e">>,
    <<"L","A","N","E","I","G","E">>,
    <<"L","a","n","e","i","g","e">>,
    <<"R","o","m","&","n","d">>,
    <<"R","o","m","a","n","d">>,
    <<"T","i","r","T","i","r">>,
    <<"T","I","R","T","I","R">>,
    <<"M","i","s","s","h","a">>,
    <<"K","l","a","i","r","s">>,
    <<"G","o","o","d","a","l">>,
    <<"P","u","r","i","t","o">>,
    <<"C","O","S","R","X">>,
    <<"C","o","s","r","x">>,
    <<"E","t","u","d","e">>,
    <<"B","e","n","t","o","n">>,
    <<"C","l","i","o">>,
    <<"C","L","I","O">>,
    <<"A","n","u","a">>,
    <<"B","u","m","b","l","e"," ","a","n","d"," ","b","u","m","b","l","e">>,
    <<"B","u","m","b","l","e"," ","&"," ","B","u","m","b","l","e">>,
    <<"P","a","t","t","e","r","n"," ","B","e","a","u","t","y">>,
    <<"S","h","e","a","M","o","i","s","t","u","r","e">>,
    <<"S","h","e","a"," ","M","o","i","s","t","u","r","e">>,
    <<"L","i","v","i","n","g"," ","P","r","o","o","f">>,
    <<"M","o","r","o","c","c","a","n","o","i","l">>,
    <<"M","o","r","o","c","c","a","n"," ","O","i","l">>,
    <<"K","eacute","r","a","s","t","a","s","e">>,
    <<"K","e","r","a","s","t","a","s","e">>,
    <<"P","u","r","e","o","l","o","g","y">>,
    <<"C","o","l","o","r"," ","W","o","w">>,
    <<"D","e","v","a","C","u","r","l">>,
    <<"B","r","i","o","g","e","o">>,
    <<"O","l","a","p","l","e","x">>,
    <<"R","e","d","k","e","n">>,
    <<"G","o","t","2","b">>,
    <<"G","O","T","2","B">>,
    <<"g","o","t","2","b">>,
    <<"P","a","t","t","e","r","n">>,
    <<"G","i","s","o","u">>,
    <<"A","m","i","k","a">>,
    <<"D","y","s","o","n">>,
    <<"O","u","a","i">>,
    <<"O","U","A","I">>,
    <<"V","e","r","b">>,
    <<"D","a","e">>,
    <<"I","G","K">>,
    <<"J","V","N">>,
    <<"B","r","a","z","i","l","i","a","n"," ","B","u","m"," ","B","u","m">>,
    <<"B","e","i","n","g"," ","F","r","e","n","s","h","e">>,
    <<"S","o","l"," ","d","e"," ","J","a","n","e","i","r","o">>,
    <<"S","u","m","m","e","r"," ","F","r","i","d","a","y","s">>,
    <<"D","r","."," ","T","e","a","l","'","s">>,
    <<"D","r"," ","T","e","a","l","'","s">>,
    <<"D","r"," ","T","e","a","l","s">>,
    <<"N","eacute","c","e","s","s","a","i","r","e">>,
    <<"N","e","c","e","s","s","a","i","r","e">>,
    <<"T","r","e","e"," ","H","u","t">>,
    <<"A","q","u","a","p","h","o","r">>,
    <<"E","u","c","e","r","i","n">>,
    <<"K","o","p","a","r","i">>,
    <<"N","i","v","e","a">>,
    <<"D","o","v","e">>,
    <<"M","a","i","s","o","n"," ","M","a","r","g","i","e","l","a">>,
    <<"J","o"," ","M","a","l","o","n","e">>,
    <<"D","i","p","t","y","q","u","e">>,
    <<"T","o","m"," ","F","o","r","d">>,
    <<"R","e","p","l","i","c","a">>,
    <<"L","e"," ","L","a","b","o">>,
    <<"V","e","r","s","a","c","e">>,
    <<"B","y","r","e","d","o">>,
    <<"G","u","c","c","i">>,
    <<"P","r","a","d","a">>,
    <<"L","'","O","r","eacute","a","l">>,
    <<"L","'","O","r","e","a","l">>,
    <<"L","o","r","e","a","l">>,
    <<"N","e","i","l","m","e","d">>,
    <<"N","e","i","l","M","e","d">>,
    <<"O","'","S","u","l","l","o","c">>,
    <<"O","s","u","l","l","o","c">>,
    <<"P","a","t","r","i","c","k"," ","T","a">>,
    <<"A","v","e","e","n","o">>,
    <<"L","u","m","i","f","y">>,
    <<"S","a","n","t","e">>,
    <<"R","h","o","d","e">>,
    <<"J","u","v","i","a","'","s"," ","P","l","a","c","e">>,
    <<"M","a","k","e"," ","U","p"," ","F","o","r"," ","E","v","e","r">>,
    <<"M","U","F","E">>
    >>

BrandBenefit == <<"B","e","n","e","f","i","t">>
BrandBenefitCosmetics ==
    <<"B","e","n","e","f","i","t"," ","C","o","s","m","e","t","i","c","s">>
BrandElf == <<"e",".","l",".","f",".">>
AliasElf == <<"e","l","f">>

RecBenefit == BrandRecord(BrandBenefit, <<>>)
RecBenefitCosmetics == BrandRecord(BrandBenefitCosmetics, << <<>> >>)
RecElf == BrandRecord(BrandElf, << <<AliasElf, Null>> >>)
RecElfUpper == BrandRecord(<<"E","L","F">>, <<>>)
RecNoName == BrandRecord(Null, <<>>)
RecBlankAlias == BrandRecord(Null, << <<Null>> >>)

\* What sanityClient.fetch resolves to, or that it rejects
FetchThrows == [kind |-> "throw", brands |-> <<>>]
FetchNull == [kind |-> "null", brands |-> <<>>]
FetchList(brands) == [kind |-> "list", brands |-> brands]

\* The caller of getBrands: where it is (pc), and of the call made last its
\* operation, the time it started, whether it awaited a fetch and the path
\* it took to its return
IdleBrandCall ==
    [pc |-> "idle", op |-> "none", start |-> 0, net |-> FALSE, path |-> "none"]

\* getBrands at its return with list, or at the await of sanityClient.fetch
\* (pc), and the module variables it leaves
BrandsAt(pc, list, cb, lft, records) ==
    [pc |-> pc, list |-> list, cachedBrands |-> cb, lastFetchTime |-> lft,
     cachedRecords |-> records, path |-> pc]

\* The fallback without lastFetchTime = Date.now()
UseFallbackUnstamped ==
    BrandsAt("return", FALLBACK_BRANDS, <<FALLBACK_BRANDS>>, lastFetchTime, <<>>)

\* cachedBrands = FALLBACK_BRANDS; lastFetchTime = Date.now(); return cachedBrands
UseFallback ==
    BrandsAt("return", FALLBACK_BRANDS, <<FALLBACK_BRANDS>>, now, <<>>)

\* cachedBrands = [...]; lastFetchTime = Date.now(); return cachedBrands
UseRemote(names, brands) == BrandsAt("return", names, <<names>>, now, brands)

\* getBrands from its cache check to its return or to the await of
\* sanityClient.fetch; cb and lft are the values of cachedBrands and
\* lastFetchTime it finds.  An array is truthy even when it is empty.
GetBrandsStart(cb, lft) ==
    IF cb # <<>> /\ lft # 0 /\ now - lft < CACHE_DURATION_MS
    THEN [BrandsAt("return", cb[1], cb, lft, cachedRecords)
            EXCEPT !.path = "cache"]
    ELSE IF sanityClient
    THEN BrandsAt("fetching", <<>>, cb, lft,
                  IF cb = <<>> THEN <<>> ELSE cachedRecords)
    ELSE [UseFallback EXCEPT !.path = "noClient"]

\* The same without its try block: a rejected fetch leaves getBrands by the
\* exception
GetBrandsEndNoCatch(response) ==
    IF response.kind = "list" /\ Len(response.brands) > 0
    THEN [UseRemote(NamesAndAliases(response.brands), response.brands)
            EXCEPT !.path = "remote"]
    ELSE IF response.kind = "throw"
    THEN BrandsAt("raised", <<>>, cachedBrands, lastFetchTime, cachedRecords)
    ELSE [UseFallback EXCEPT !.path = response.kind]

\* getBrands from the settling of sanityClient.fetch to its return; path
\* tells a rejected fetch ("throw"), a null result and an empty list apart
GetBrandsEnd(response) ==
    IF response.kind = "list" /\ Len(response.brands) > 0
    THEN [UseRemote(NamesAndAliases(response.brands), response.brands)
            EXCEPT !.path = "remote"]
    ELSE [UseFallback EXCEPT !.path = IF response.kind = "list" THEN "empty"
                                      ELSE response.kind]

----------------------------------------------------------------------------
(* claude.js: the description parser *)

\* let amazonAssociateTag = 'kyndallames09-20'
amazonAssociateTag == <<"k","y","n","d","a","l","l","a","m","e","s","0","9","-","2","0">>

Hyphen == "-"
EnDash == "endash"
EmDash == "emdash"
Bullet == "bullet"
Quote == "\""
Dashes == {Hyphen, EnDash, EmDash}
Digits == {"0","1","2","3","4","5","6","7","8","9"}

IsLetter(c) == c \in UpperSet \/ c \in LowerSet

CharAt(s, i) == IF i >= 1 /\ i <= Len(s) THEN s[i] ELSE ""

\* The first position of the run of dashes that ends at position d
RECURSIVE DashRunStart(_, _, _)
DashRunStart(s, dashes, d) ==
    IF d > 1 /\ s[d - 1] \in dashes THEN DashRunStart(s, dashes, d - 1) ELSE d

\* The last position of the run of dashes that starts at position d
RECURSIVE DashRunEnd(_, _, _)
DashRunEnd(s, dashes, d) ==
    IF d < Len(s) /\ s[d + 1] \in dashes THEN DashRunEnd(s, dashes, d + 1) ELSE d

\* The text before the dash at position d (the run of dashes that ends
\* there, with many) and before the white space in front of it
BeforeDash(s, dashes, many, d) ==
    SubSeq(s, 1, SkipSpacesBack(s,
                   (IF many THEN DashRunStart(s, dashes, d) ELSE d) - 1))

\* The match ends at the last character d of s that is no white space
StripTrailingAt(s, dashes, many, d) ==
    IF CharAt(s, d) \in dashes THEN BeforeDash(s, dashes, many, d) ELSE s

\* s.replace(/\s*[-...]\s*$/, '') and, with many, s.replace(/\s*[-...]+\s*$/, ''):
\* the match is the last dash (run of dashes) of s when only white space
\* follows it, with the white space around it
StripTrailing(s, dashes, many) ==
    StripTrailingAt(s, dashes, many, SkipSpacesBack(s, Len(s)))

StripLeadingAt(s, dashes, f) ==
    IF CharAt(s, f) \in dashes
    THEN SubSeq(s, SkipSpaces(s, DashRunEnd(s, dashes, f) + 1), Len(s))
    ELSE s

\* s.replace(/^\s*[-...]+\s*/, '')
StripLeading(s, dashes) == StripLeadingAt(s, dashes, SkipSpaces(s, 1))

\* new RegExp(`^${escapeRegex(b)}\\s+`, 'i').test(name): name starts with b,
\* letter case ignored, and white space follows
BrandPrefix(name, lowerName, b) ==
    /\ Len(name) > Len(b)
    /\ IsSpace(name[Len(b) + 1])
    /\ SubSeq(lowerName, 1, Len(b)) = toLowerCase(b)

\* for (const b of beautyBrands) { if (regex.test(name)) { ...; break } }:
\* <<b>> for the first b that matches, <<>> when none does
FirstBrand(name, lowerName, beautyBrands) ==
    LET hits == {i \in 1..Len(beautyBrands) :
                    BrandPrefix(name, lowerName, beautyBrands[i])}
    IN IF hits = {} THEN <<>> ELSE <<beautyBrands[Min(hits)]>>

NotQuote(c) == c # Quote

\* name.replace(/"/g, ''), then name.replace(/\s*[-...]\s*$/, '').trim()
CleanName(name) ==
    trim(StripTrailing(SelectSeq(name, NotQuote), Dashes, FALSE))

\* brand = b; name = name.replace(regex, '').trim()
SplitBrand(name, found) ==
    IF found = <<>> THEN [brand |-> Unknown, name |-> CleanName(name)]
    ELSE [brand |-> found[1],
          name |-> CleanName(trim(SubSeq(name, Len(found[1]) + 1, Len(name))))]

SplitCleaned(name, beautyBrands) ==
    SplitBrand(name, FirstBrand(name, toLowerCase(name), beautyBrands))

extractBrandAndName(fullProductName, beautyBrands) ==
    SplitCleaned(trim(trimEnd(StripTrailing(fullProductName, Dashes, FALSE))),
                 beautyBrands)

MakeupWords ==
    {<<"f","o","u","n","d","a","t","i","o","n">>,
     <<"c","o","n","c","e","a","l","e","r">>,
     <<"p","o","w","d","e","r">>,
     <<"b","l","u","s","h">>,
     <<"b","r","o","n","z","e","r">>,
     <<"h","i","g","h","l","i","g","h","t","e","r">>,
     <<"l","i","p","s","t","i","c","k">>,
     <<"l","i","p"," ">>,
     <<"m","a","s","c","a","r","a">>,
     <<"e","y","e","l","i","n","e","r">>,
     <<"e","y","e","s","h","a","d","o","w">>,
     <<"b","r","o","w">>,
     <<"p","r","i","m","e","r">>,
     <<"s","e","t","t","i","n","g">>,
     <<"c","o","n","t","o","u","r">>,
     <<"t","i","n","t">>,
     <<"p","e","n","c","i","l">>,
     <<"b","a","l","m">>,
     <<"g","l","o","s","s">>,
     <<"p","a","l","e","t","t","e">>}
SkincareWords ==
    {<<"s","e","r","u","m">>,
     <<"m","o","i","s","t","u","r","i","z","e","r">>,
     <<"c","l","e","a","n","s","e","r">>,
     <<"t","o","n","e","r">>,
     <<"s","u","n","s","c","r","e","e","n">>,
     <<"s","p","f">>,
     <<"r","e","t","i","n","o","l">>,
     <<"v","i","t","a","m","i","n"," ","c">>,
     <<"m","a","s","k">>,
     <<"e","x","f","o","l","i","a","n","t">>,
     <<"c","r","e","a","m">>,
     <<"l","o","t","i","o","n">>,
     <<"w","a","s","h">>,
     <<"a","c","i","d">>,
     <<"o","i","l">>}
HaircareWords ==
    {<<"s","h","a","m","p","o","o">>,
     <<"c","o","n","d","i","t","i","o","n","e","r">>,
     <<"h","a","i","r">>,
     <<"s","t","y","l","i","n","g">>,
     <<"o","l","a","p","l","e","x">>,
     <<"d","r","y"," ","s","h","a","m","p","o","o">>}
FragranceWords ==
    {<<"p","e","r","f","u","m","e">>,
     <<"f","r","a","g","r","a","n","c","e">>,
     <<"c","o","l","o","g","n","e">>,
     <<"b","o","d","y"," ","m","i","s","t">>,
     <<"e","a","u"," ","d","e">>}
BodycareWords ==
    {<<"b","o","d","y">>,
     <<"s","c","r","u","b">>,
     <<"b","a","t","h">>,
     <<"h","a","n","d">>,
     <<"s","o","a","k">>}
ToolsWords ==
    {<<"b","r","u","s","h">>,
     <<"s","p","o","n","g","e">>,
     <<"c","u","r","l","e","r">>,
     <<"d","r","y","e","r">>,
     <<"s","t","r","a","i","g","h","t","e","n","e","r">>,
     <<"d","y","s","o","n">>,
     <<"m","i","r","r","o","r">>,
     <<"o","r","g","a","n","i","z","e","r">>,
     <<"s","p","o","o","l","i","e">>}

guessProductType(text) ==
    LET lower == toLowerCase(text)
        Has(words) == \E w \in words : includes(lower, w)
    IN IF Has(MakeupWords) THEN "makeup"
       ELSE IF Has(SkincareWords) THEN "skincare"
       ELSE IF Has(HaircareWords) THEN "haircare"
       ELSE IF Has(FragranceWords) THEN "fragrance"
       ELSE IF Has(BodycareWords) THEN "bodycare"
       ELSE IF Has(ToolsWords) THEN "tools"
       ELSE "other"

HttpScheme == <<"h","t","t","p",":","/","/">>
HttpsScheme == <<"h","t","t","p","s",":","/","/">>

\* /https?:\/\/[^\s]+/ matches at position i of s
UrlAt(s, i) ==
    CharAt(s, i) = "h" /\
    LET n == IF MatchesAt(s, i, HttpScheme) THEN Len(HttpScheme)
             ELSE IF MatchesAt(s, i, HttpsScheme) THEN Len(HttpsScheme)
             ELSE 0
    IN n > 0 /\ i + n <= Len(s) /\ ~IsSpace(s[i + n])

\* The last position of the URL that starts at position i: [^\s]+ is greedy
RECURSIVE UrlEnd(_, _)
UrlEnd(s, i) ==
    IF i < Len(s) /\ ~IsSpace(s[i + 1]) THEN UrlEnd(s, i + 1) ELSE i

\* section.match(urlPattern) with the g flag: the matches from left to right,
\* each search starting where the previous match ended
RECURSIVE ScanUrls(_, _)
ScanUrls(s, from) ==
    LET starts == {i \in from..Len(s) : UrlAt(s, i)} IN
    IF starts = {} THEN <<>>
    ELSE LET i == Min(starts)
             e == UrlEnd(s, i)
         IN <<[start |-> i, end |-> e]>> \o ScanUrls(s, e + 1)

DomShopmy == <<"s","h","o","p","m","y",".","u","s">>
DomGoShopmy == <<"g","o",".","s","h","o","p","m","y",".","u","s">>
DomShopLinks == <<"s","h","o","p","-","l","i","n","k","s",".","c","o">>
DomAmazon == <<"a","m","a","z","o","n",".","c","o","m">>
DomAmznTo == <<"a","m","z","n",".","t","o">>
DomAmznCom == <<"a","m","z","n",".","c","o","m">>

IsShopmyUrl(url) ==
    includes(url, DomShopmy) \/ includes(url, DomGoShopmy)
        \/ includes(url, DomShopLinks)

IsAmazonUrl(url) ==
    includes(url, DomAmazon) \/ includes(url, DomAmznTo)
        \/ includes(url, DomAmznCom)

\* urlObj.searchParams.has('tag')
HasTagParam(url) ==
    \E q \in 1..Len(url) :
        /\ url[q] = "?"
        /\ \E i \in q..Len(url) :
              url[i] \in {"?", "&"} /\ MatchesAt(url, i + 1, <<"t","a","g","=">>)

\* The position where the host of url ends: before the first "/", "?" or
\* "#" after the scheme, or at the end of url
HostEnd(url, from) ==
    Min({i \in from..Len(url) : url[i] \in {"/", "?", "#"}} \cup {Len(url) + 1}) - 1

HostStart(url) ==
    IF MatchesAt(url, 1, HttpsScheme) THEN Len(HttpsScheme) + 1
    ELSE Len(HttpScheme) + 1

\* Characters that make the host parser of new URL(url) fail
ForbiddenHostChars == {"<", ">", "^", "|"}

\* new URL(url) does not throw: the host is not empty and holds none of the
\* forbidden characters
UrlParses(url) ==
    /\ HostEnd(url, HostStart(url)) >= HostStart(url)
    /\ \A i \in HostStart(url)..HostEnd(url, HostStart(url)) :
          url[i] \notin ForbiddenHostChars

\* urlObj.toString() of a URL that parses: an empty path is written as "/".
\* The URLs of the model have a lower-case host, no port, no fragment and
\* nothing to percent-encode, so nothing else changes.
Serialized(url) ==
    IF CharAt(url, HostEnd(url, HostStart(url)) + 1) = "/" THEN url
    ELSE SubSeq(url, 1, HostEnd(url, HostStart(url))) \o <<"/">>
            \o SubSeq(url, HostEnd(url, HostStart(url)) + 1, Len(url))

\* url with the parameter tag appended to its query, as the catch block
\* writes it; searchParams.set writes the same when the query is absent or
\* not empty
WithTag(url) ==
    url \o (IF includes(url, <<"?">>) THEN <<"&">> ELSE <<"?">>)
        \o <<"t","a","g","=">> \o amazonAssociateTag

\* addAmazonAssociateTag(url): the try block, and the catch block when
\* new URL(url) throws
addAmazonAssociateTag(url) ==
    IF includes(url, DomAmznTo) THEN url
    ELSE IF ~UrlParses(url) THEN WithTag(url)
    ELSE IF HasTagParam(url) THEN Serialized(url)
    ELSE WithTag(Serialized(url))

shopmyUrlOf(url) == IF IsShopmyUrl(url) THEN url ELSE Null

\* The retail test made whether or not the affiliate test held
amazonUrlOfAlways(url) ==
    IF IsAmazonUrl(url) THEN addAmazonAssociateTag(url) ELSE Null

amazonUrlOf(url) ==
    IF ~IsShopmyUrl(url) /\ IsAmazonUrl(url) THEN addAmazonAssociateTag(url)
    ELSE Null

CandidateOf(text, url, bn) ==
    [text |-> text,
     product |-> MakeProduct(bn.brand, bn.name, guessProductType(text),
                             shopmyUrlOf(url), amazonUrlOf(url), url)]

\* One candidate: the text handed to extractBrandAndName, and the record
\* products.push receives
Candidate(text, url, beautyBrands) ==
    CandidateOf(text, url, extractBrandAndName(text, beautyBrands))
----------------------------------------------------------------------------
(* sanity.js: the draft built by createDraftBlogPost *)

\* analysis.blogContent is a sequence of pieces: plain text and mark-up
\* ("text"), and anchors <a href="#product-N" class="product-link">text</a>
\* ("ref").  The replacements turn a "ref" into an anchor on the product's
\* URL ("link") or into <strong class="product-name">text</strong> ("strong").
Piece(kind, ref, text, href, title) ==
    [kind |-> kind, ref |-> ref, text |-> text, href |-> href, title |-> title]

TitleShopMy == <<"S","h","o","p"," ","o","n"," ","S","h","o","p","M","y">>
TitleAmazon == <<"S","h","o","p"," ","o","n"," ","A","m","a","z","o","n">>

\* The pattern <a href="#product-N"[^>]*class="product-link"[^>]*>([^<]+)</a>
\* matches the piece: ([^<]+) needs a text of one character at least
PatternMatches(piece, n) ==
    piece.kind = "ref" /\ piece.ref = n /\ Len(piece.text) > 0

\* The URL an anchor is given when the retail link comes first
ActualUrlAmazonFirst(product) ==
    IF Truthy(product.amazonUrl)
    THEN [actualUrl |-> product.amazonUrl, linkTitle |-> TitleAmazon]
    ELSE IF Truthy(product.shopmyUrl)
    THEN [actualUrl |-> product.shopmyUrl, linkTitle |-> TitleShopMy]
    ELSE [actualUrl |-> Null, linkTitle |-> Null]

\* if (product.shopmyUrl) ... else if (product.amazonUrl) ...
ActualUrl(product) ==
    IF Truthy(product.shopmyUrl)
    THEN [actualUrl |-> product.shopmyUrl, linkTitle |-> TitleShopMy]
    ELSE IF Truthy(product.amazonUrl)
    THEN [actualUrl |-> product.amazonUrl, linkTitle |-> TitleAmazon]
    ELSE [actualUrl |-> Null, linkTitle |-> Null]

\* String.prototype.replace reads its second argument as a replacement
\* pattern: in the text spliced into it, $$ stands for $ and $1 (or $01) for
\* the text the pattern captured; a $ before anything else is kept.  (The
\* forms $&, $` and $' splice in text around the match; no input here has
\* them.)
RECURSIVE Expand(_, _)
Expand(s, captured) ==
    IF s = <<>> THEN <<>>
    ELSE IF Len(s) >= 2 /\ s[1] = "$" /\ s[2] = "$"
    THEN <<"$">> \o Expand(SubSeq(s, 3, Len(s)), captured)
    ELSE IF Len(s) >= 2 /\ s[1] = "$" /\ s[2] = "1"
    THEN captured \o Expand(SubSeq(s, 3, Len(s)), captured)
    ELSE IF Len(s) >= 3 /\ s[1] = "$" /\ s[2] = "0" /\ s[3] = "1"
    THEN captured \o Expand(SubSeq(s, 4, Len(s)), captured)
    ELSE <<s[1]>> \o Expand(Tail(s), captured)

\* What a matched piece is replaced with: if (actualUrl) ... else ...
Replacement(piece, u) ==
    IF Truthy(u.actualUrl)
    THEN Piece("link", 0, piece.text,
               Expand(u.actualUrl, piece.text), Expand(u.linkTitle, piece.text))
    ELSE Piece("strong", 0, piece.text, Null, Null)

\* htmlContent.replace(pattern, ...) for product number n: the g flag
\* replaces every match
ReplaceProduct(html, product, n) ==
    [k \in 1..Len(html) |->
        IF PatternMatches(html[k], n)
        THEN Replacement(html[k], ActualUrl(product))
        ELSE html[k]]

\* for (let i = 0; i < productLinks.length; i++), from the (1-based) n on
RECURSIVE ReplaceLinks(_, _, _)
ReplaceLinks(html, productLinks, n) ==
    IF n > Len(productLinks) THEN html
    ELSE ReplaceLinks(ReplaceProduct(html, productLinks[n], n),
                      productLinks, n + 1)

\* The last replace: every remaining anchor on #product-\d+ becomes <strong>
ReplaceRemaining(html) ==
    [k \in 1..Len(html) |->
        IF html[k].kind = "ref" /\ Len(html[k].text) > 0
        THEN Piece("strong", 0, html[k].text, Null, Null)
        ELSE html[k]]

NameProduct == <<"P","r","o","d","u","c","t">>

\* featuredProducts: productLinks.map(p => ({...}))
FeaturedProduct(p) ==
    [productName |-> IF Truthy(p.name) THEN p.name ELSE NameProduct,
     brand |-> p.brand,
     shopmyUrl |-> p.shopmyUrl,
     amazonUrl |-> p.amazonUrl,
     hasShopMyLink |-> IF Truthy(p.shopmyUrl) THEN "yes" ELSE "pending",
     hasAmazonLink |-> IF Truthy(p.amazonUrl) THEN "yes" ELSE "pending"]

\* productLinks: productLinks.map(p => ({...})); suggestedAmazonSearch is set
\* when the record has no amazonUrl
ProductItem(p) ==
    [name |-> p.name, brand |-> p.brand,
     originalUrl |-> p.originalUrl,
     amazonUrl |-> p.amazonUrl,
     shopmyUrl |-> p.shopmyUrl,
     hasShopmy |-> IF Truthy(p.shopmyUrl) THEN "yes" ELSE "pending",
     hasAmazon |-> IF Truthy(p.amazonUrl) THEN "yes" ELSE "pending",
     suggestedAmazonSearch |-> ~Truthy(p.amazonUrl)]

\* The document handed to client.create; given holds the arguments it was
\* built from.  The fields that carry no product link (titles, GEO content,
\* thumbnail, time stamps) are left out.
Doc(video, analysis, productLinks) ==
    [videoId |-> video,
     htmlContent |->
        ReplaceRemaining(ReplaceLinks(analysis.blogContent, productLinks, 1)),
     featuredProducts |->
        [i \in 1..Len(productLinks) |-> FeaturedProduct(productLinks[i])],
     productLinks |->
        [i \in 1..Len(productLinks) |-> ProductItem(productLinks[i])],
     given |-> [blogContent |-> analysis.blogContent,
                productLinks |-> productLinks]]

TikTokPrefix == <<"t","i","k","t","o","k","_">>

\* checkIfVideoProcessed(videoId): the query finds a post whose videoId is
\* videoId or `tiktok_${videoId}`
VideoProcessed(videoId) ==
    \E i \in 1..Len(posts) :
        \/ posts[i].videoId = videoId
        \/ posts[i].videoId = TikTokPrefix \o videoId

----------------------------------------------------------------------------
(* index.js: the runs of processNewContent *)

MaxCronRuns == 2       \* runs started by the cron schedule in one behaviour
MaxDrafts == 1         \* direct createDraftBlogPost calls in one behaviour

\* Run 0 is the one main starts itself and awaits; it then schedules the
\* others
RunIds == 0..MaxCronRuns

\* A run of processNewContent: where it is suspended (pc), the videos it
\* fetched, the (1-based) position of the video at hand, and its analysis
IdleRun == [pc |-> "idle", videos |-> <<>>, k |-> 0, analysis |-> <<>>]

initSanity ==
    /\ client' = TRUE
    /\ UNCHANGED <<posts, run, isFirstRun>>
    /\ UNCHANGED <<clockVars, amazonVars, contentVars>>

\* createDraftBlogPost({video, analysis, productLinks}) called by itself
createDraftBlogPost(video, analysis, productLinks) ==
    /\ Len(posts) < MaxDrafts
    /\ client
    /\ posts' = Append(posts, Doc(video, analysis, productLinks))
    /\ UNCHANGED <<client, run, isFirstRun>>
    /\ UNCHANGED <<clockVars, amazonVars, contentVars>>

\* main, or the cron schedule once main has scheduled it, starts a run: the
\* run is suspended at the awaits that come before the loop
processNewContent(r) ==
    /\ run[r].pc = "idle"
    /\ r = 0 \/ run[0].pc = "done"
    /\ run' = [run EXCEPT ![r].pc = "gather"]
    /\ UNCHANGED <<client, posts, isFirstRun>>
    /\ UNCHANGED <<clockVars, amazonVars, contentVars>>

\* The run goes to the video at position k of its list, or leaves the loop:
\* isFirstRun = false, and the function returns
AtVideo(r, videos, k) ==
    IF k <= Len(videos)
    THEN /\ run' = [run EXCEPT ![r] =
                [pc |-> "check", videos |-> videos, k |-> k, analysis |-> <<>>]]
         /\ UNCHANGED isFirstRun
    ELSE /\ run' = [run EXCEPT ![r] =
                [pc |-> "done", videos |-> videos, k |-> k, analysis |-> <<>>]]
         /\ isFirstRun' = FALSE

\* The catch at the end of processNewContent: the run ends where it is
RunFails(r) == run' = [run EXCEPT ![r].pc = "done"]

\* The video fetches have resolved: allVideos is videos
VideosFetched(r, videos) ==
    /\ run[r].pc = "gather"
    /\ AtVideo(r, videos, 1)
    /\ UNCHANGED <<client, posts>>
    /\ UNCHANGED <<clockVars, amazonVars, contentVars>>

\* await checkIfVideoProcessed(video.id) settles: it throws without client,
\* and a video with a post is skipped
CheckResolves(r) ==
    /\ run[r].pc = "check"
    /\ IF ~client
       THEN RunFails(r) /\ UNCHANGED isFirstRun
       ELSE IF VideoProcessed(run[r].videos[run[r].k])
       THEN AtVideo(r, run[r].videos, run[r].k + 1)
       ELSE /\ run' = [run EXCEPT ![r].pc = "analyze"]
            /\ UNCHANGED isFirstRun
    /\ UNCHANGED <<client, posts>>
    /\ UNCHANGED <<clockVars, amazonVars, contentVars>>

\* await analyzeVideoContent(video) resolves to analysis (<<>> for null)
AnalysisResolves(r, analysis) ==
    /\ run[r].pc = "analyze"
    /\ IF analysis = <<>>
       THEN AtVideo(r, run[r].videos, run[r].k + 1)
       ELSE /\ run' = [run EXCEPT ![r].pc = "create", ![r].analysis = analysis]
            /\ UNCHANGED isFirstRun
    /\ UNCHANGED <<client, posts>>
    /\ UNCHANGED <<clockVars, amazonVars, contentVars>>

\* await createDraftBlogPost({video, analysis, productLinks}) settles: the
\* document is created and the loop goes on (the notification and the pause
\* that follow touch nothing here), or the call is rejected
DraftSettles(r, created) ==
    /\ run[r].pc = "create"
    /\ IF created
       THEN /\ posts' = Append(posts,
                   Doc(run[r].videos[run[r].k], run[r].analysis[1],
                       run[r].analysis[1].products))
            /\ AtVideo(r, run[r].videos, run[r].k + 1)
       ELSE /\ RunFails(r)
            /\ UNCHANGED <<posts, isFirstRun>>
    /\ UNCHANGED client
    /\ UNCHANGED <<clockVars, amazonVars, contentVars>>


WordProduct == <<"p","r","o","d","u","c","t">>
WordMentioned == <<"m","e","n","t","i","o","n","e","d">>
SectionWords ==
    {<<"f","o","l","l","o","w">>,
     <<"s","u","b","s","c","r","i","b","e">>,
     <<"b","u","s","i","n","e","s","s">>,
     <<"m","u","s","i","c">>}

\* \n[A-Z]{2,}: with the i flag, at the position j that follows the \n: two
\* or more letters and then a colon
RECURSIVE LettersEnd(_, _)
LettersEnd(s, j) ==
    IF j <= Len(s) /\ IsLetter(s[j]) THEN LettersEnd(s, j + 1) ELSE j

LabelEndsAt(s, j, e) == e - j >= 2 /\ CharAt(s, e) = ":"

LabelAt(s, j) == LabelEndsAt(s, j, LettersEnd(s, j))

\* (?=\n\n|\nFOLLOW|\nSUBSCRIBE|\nBUSINESS|\nMUSIC|\n[A-Z]{2,}:|$) at position e
SectionEndsAt(s, lower, e) ==
    \/ e = Len(s) + 1
    \/ /\ s[e] = "\n"
       /\ \/ CharAt(s, e + 1) = "\n"
          \/ \E w \in SectionWords : MatchesAt(lower, e + 1, w)
          \/ LabelAt(s, e + 1)

\* S? , (?:MENTIONED)? and :? at position p: the position after the match
SkipLetterS(lower, p) == IF CharAt(lower, p) = "s" THEN p + 1 ELSE p
SkipWord(lower, p, w) == IF MatchesAt(lower, p, w) THEN p + Len(w) ELSE p
SkipColon(s, p) == IF CharAt(s, p) = ":" THEN p + 1 ELSE p

\* ([\s\S]*?)(?=...) from position p on: the group is lazy and ends at the
\* first position where the lookahead holds, at $ at the latest
SectionFrom(s, lower, p) ==
    SubSeq(s, p, Min({e \in p..(Len(s) + 1) : SectionEndsAt(s, lower, e)}) - 1)

\* PRODUCTS?\s*(?:MENTIONED)?:?\s* matched at position h: the quantifiers are
\* greedy and the match never has to give anything back
SectionStart(s, lower, h) ==
    SkipSpaces(s,
        SkipColon(s,
            SkipWord(lower,
                SkipSpaces(s, SkipLetterS(lower, h + Len(WordProduct))),
                WordMentioned)))

SectionAfterHead(s, lower, h) ==
    SectionFrom(s, lower, SectionStart(s, lower, h))

SectionOf(s, lower, heads) ==
    IF heads = {} THEN <<>> ELSE << SectionAfterHead(s, lower, Min(heads)) >>

ProductsMatchIn(s, lower) ==
    SectionOf(s, lower, {i \in 1..Len(s) : MatchesAt(lower, i, WordProduct)})

\* description.match(/PRODUCTS?\s*(?:MENTIONED)?:?\s*([\s\S]*?)(?=...)/i):
\* <<productsMatch[1]>>, or <<>> for no match.  The match starts at the first
\* "product" of the text, letter case ignored.
productsMatch(text) == ProductsMatchIn(text, toLowerCase(text))

ShopMy == <<"s","h","o","p"," ","m","y",":">>

\* textParts[i] of productsSection.split(urlPattern), cleaned:
\* .trim().replace(/\s*[-...]+\s*$/, '').replace(/^\s*[-...]+\s*/, '').trim()
SectionText(productsSection, urls, i) ==
    trim(StripLeading(
           StripTrailing(
             trim(SubSeq(productsSection,
                         IF i = 1 THEN 1 ELSE urls[i - 1].end + 1,
                         urls[i].start - 1)),
             Dashes, TRUE),
           Dashes))

\* for (let i = 0; i < urls.length; i++): url and productText of every turn
SectionItems(productsSection, urls) ==
    [i \in 1..Len(urls) |->
        [text |-> SectionText(productsSection, urls, i),
         url |-> trim(SubSeq(productsSection, urls[i].start, urls[i].end))]]

\* if (!productText || productText.length < 2) continue
\* if (productText.toLowerCase() === 'shop my:') continue
KeepsItem(item) ==
    ~(Len(item.text) < 2 \/ toLowerCase(item.text) = ShopMy)

CandidatesOf(items, beautyBrands) ==
    [i \in 1..Len(items) |->
        Candidate(items[i].text, items[i].url, beautyBrands)]

\* METHOD 1: the candidates of the PRODUCTS section, one per URL whose text
\* passes the checks
SectionCandidates(productsSection, beautyBrands) ==
    CandidatesOf(
        SelectSeq(SectionItems(productsSection, ScanUrls(productsSection, 1)),
                  KeepsItem),
        beautyBrands)

LinesAt(text, at) ==
    [k \in 1..(Len(at) + 1) |->
        SubSeq(text, IF k = 1 THEN 1 ELSE at[k - 1] + 1,
                     IF k = Len(at) + 1 THEN Len(text) ELSE at[k] - 1)]

\* description.split('\n')
SplitLines(text) ==
    LinesAt(text, Keep([i \in 1..Len(text) |-> i],
                       {i \in 1..Len(text) : text[i] = "\n"}))

skipPatterns ==
    {<<"f","o","l","l","o","w"," ","m","e">>,
     <<"s","u","b","s","c","r","i","b","e">>,
     <<"b","u","s","i","n","e","s","s">>,
     <<"i","n","s","t","a","g","r","a","m",":">>,
     <<"t","i","k","t","o","k",":">>,
     <<"t","w","i","t","t","e","r",":">>,
     <<"s","h","o","p"," ","m","y",":">>}

affiliateTypes ==
    {<<"s","h","o","p","m","y">>,
     <<"a","m","a","z","o","n">>,
     <<"r","s","t","y","l","e">>,
     <<"l","i","k","e","t","o","k","n","o","w">>,
     <<"l","t","k",".","a","p","p">>}

Separators == {Hyphen, EnDash, ":"}
BulletChars == {Bullet, Hyphen, "*", "."} \cup Digits

SkipSeparator(s, a) ==
    IF CharAt(s, a) \in Separators THEN SkipSpaces(s, a + 1) ELSE a

\* \s*[-...:]?\s*(https?:\/\/[^\s]+) with the i flag, from position k on: the
\* position of the URL, or 0
UrlStartAt(lower, b) == IF UrlAt(lower, b) THEN b ELSE 0

UrlAfter(s, lower, k) == UrlStartAt(lower, SkipSeparator(s, SkipSpaces(s, k)))

\* Groups 1 and 2 of the match
UrlGroups(s, k, u) ==
    <<[name |-> SubSeq(s, 1, k - 1), url |-> SubSeq(s, u, UrlEnd(s, u))]>>

UrlMatchAt(s, lower, ks) ==
    IF ks = {} THEN <<>>
    ELSE UrlGroups(s, Min(ks), UrlAfter(s, lower, Min(ks)))

UrlMatchIn(s, lower) ==
    UrlMatchAt(s, lower, {k \in 2..Len(s) : UrlAfter(s, lower, k) # 0})

\* trimmedLine.match(/(.+?)\s*[-...:]?\s*(https?:\/\/[^\s]+)/i): <<[name, url]>>
\* with groups 1 and 2, or <<>>.  A line holds no line terminator, so the
\* match starts at the first character, and group 1, being lazy, is the
\* shortest text after which the rest matches.
urlMatch(trimmedLine) == UrlMatchIn(trimmedLine, toLowerCase(trimmedLine))

\* .replace(/^[bullet\-\*\d.]\s*/, '')
StripBullet(s) ==
    IF CharAt(s, 1) \in BulletChars THEN SubSeq(s, SkipSpaces(s, 2), Len(s))
    ELSE s

\* What METHOD 2 keeps of a line that reaches the classification: the
\* candidate, its URL, and whether products.push is reached
\* (affiliateTypes.some(t => url.includes(t)))
ParsedLine(c, url) ==
    <<[text |-> c.text, product |-> c.product, url |-> url,
       pushed |-> \E t \in affiliateTypes : includes(url, t)]>>

\* if (productName.length < 3 || productName.toUpperCase() === productName) continue
ScanNamed(productName, url, beautyBrands) ==
    IF Len(productName) < 3 \/ toUpperCase(productName) = productName
    THEN <<>>
    ELSE ParsedLine(Candidate(productName, url, beautyBrands), url)

\* if (urlMatch) { const productName = urlMatch[1].replace(...)...trim() ... }
ScanMatched(m, beautyBrands) ==
    IF m = <<>> THEN <<>>
    ELSE ScanNamed(trim(StripTrailing(StripBullet(m[1].name),
                                      {Hyphen, EnDash}, FALSE)),
                   m[1].url, beautyBrands)

\* if (!trimmedLine) continue
\* if (skipPatterns.some(p => trimmedLine.toLowerCase().includes(p))) continue
ScanTrimmed(trimmedLine, lowerLine, beautyBrands) ==
    IF trimmedLine = <<>> THEN <<>>
    ELSE IF \E p \in skipPatterns : includes(lowerLine, p) THEN <<>>
    ELSE ScanMatched(urlMatch(trimmedLine), beautyBrands)

\* One line of METHOD 2: <<>> when the line is passed over before the URL is
\* classified, else <<l>>
ScanLine(line, beautyBrands) ==
    ScanTrimmed(trim(line), toLowerCase(trim(line)), beautyBrands)

\* METHOD 2: the lines of the description that reach the classification
RECURSIVE ScanLines(_, _)
ScanLines(lines, beautyBrands) ==
    IF lines = <<>> THEN <<>>
    ELSE ScanLine(Head(lines), beautyBrands)
            \o ScanLines(Tail(lines), beautyBrands)

\* METHOD 2 runs on every description
FallbackAlways(products) == TRUE

\* if (products.length === 0)
FallbackNeeded(products) == Len(products) = 0

\* The key of the last filter, were it the brand and name alone
DedupKeyByName(p) == toLowerCase(p.brand \o <<"-">> \o p.name)

\* p.originalUrl || `${p.brand}-${p.name}`.toLowerCase()
DedupKey(p) ==
    IF Truthy(p.originalUrl) THEN p.originalUrl
    ELSE toLowerCase(p.brand \o <<"-">> \o p.name)

\* products.filter(p => { ... seen.has(key) ... seen.add(key) ... }) from
\* position i on
RECURSIVE DedupFilter(_, _, _)
DedupFilter(products, i, seen) ==
    IF i > Len(products) THEN <<>>
    ELSE IF DedupKey(products[i]) \in seen
    THEN DedupFilter(products, i + 1, seen)
    ELSE <<products[i]>>
            \o DedupFilter(products, i + 1, seen \cup {DedupKey(products[i])})

IsPushed(l) == l.pushed

ProductsOf(cands) == [i \in 1..Len(cands) |-> cands[i].product]

SplitsOf(cands) ==
    [i \in 1..Len(cands) |->
        [text |-> cands[i].text, brand |-> cands[i].product.brand,
         name |-> cands[i].product.name]]

\* What one run of extractProductsFromDescription did: what METHOD 1 pushed,
\* whether METHOD 2 ran and the lines it classified, every text split into
\* brand and name, the array before the last filter, and the array returned
Extraction(primary, scanned, parsed, products) ==
    [primary |-> ProductsOf(primary),
     scanned |-> scanned,
     parsed |-> [i \in 1..Len(parsed) |->
                   [url |-> parsed[i].url, pushed |-> parsed[i].pushed]],
     splits |-> SplitsOf(primary) \o SplitsOf(parsed),
     candidates |-> products,
     result |-> DedupFilter(products, 1, {})]

ExtractScanned(primary, scanned, parsed) ==
    Extraction(primary, scanned, parsed,
               ProductsOf(primary \o SelectSeq(parsed, IsPushed)))

\* METHOD 2, under its condition
ExtractFallback(primary, scanned, text, beautyBrands) ==
    ExtractScanned(primary, scanned,
                   IF scanned THEN ScanLines(SplitLines(text), beautyBrands)
                   ELSE <<>>)

ExtractPrimary(primary, text, beautyBrands) ==
    ExtractFallback(primary, FallbackNeeded(primary), text, beautyBrands)

\* METHOD 1, under its condition: if (productsMatch)
ExtractMatched(m, text, beautyBrands) ==
    ExtractPrimary(IF m = <<>> THEN <<>>
                   ELSE SectionCandidates(m[1], beautyBrands),
                   text, beautyBrands)

\* extractProductsFromDescription after await getBrands()
ExtractProducts(text, beautyBrands) ==
    ExtractMatched(productsMatch(text), text, beautyBrands)

\* if (!description) return products
NoExtraction ==
    [primary |-> <<>>, scanned |-> FALSE, parsed |-> <<>>, splits |-> <<>>,
     candidates |-> <<>>, result |-> <<>>]

----------------------------------------------------------------------------
(* The callers of brands.js and claude.js *)

\* The module variables and the caller after getBrands has run to g for the
\* operation op; a call that returns leaves its record in brandCall
BrandsStep(op, g) ==
    /\ cachedBrands' = g.cachedBrands
    /\ lastFetchTime' = g.lastFetchTime
    /\ cachedRecords' = g.cachedRecords
    /\ brandCall' = IF g.pc # "return"
                    THEN [pc |-> g.pc, op |-> op, start |-> now, net |-> TRUE,
                          path |-> g.path]
                    ELSE IF brandCall.pc = "idle"
                    THEN [pc |-> "idle", op |-> op, start |-> now, net |-> FALSE,
                          path |-> g.path]
                    ELSE [brandCall EXCEPT !.pc = "idle", !.path = g.path]
    /\ returned' = IF g.pc = "return" THEN <<g.list>> ELSE returned

\* The same, and extractProductsFromDescription runs on when it is the one
\* that awaited getBrands
ExtractStep(op, g) ==
    /\ BrandsStep(op, g)
    /\ extraction' = IF op = "extract" /\ g.pc = "return"
                     THEN <<ExtractProducts(description, g.list)>>
                     ELSE extraction

initBrands ==
    /\ sanityClient' = TRUE
    /\ UNCHANGED <<cachedBrands, lastFetchTime, cachedRecords, brandCall,
                   returned, description, extraction>>
    /\ UNCHANGED <<clockVars, amazonVars, engineVars>>

getBrands ==
    /\ brandCall.pc = "idle"
    /\ BrandsStep("getBrands", GetBrandsStart(cachedBrands, lastFetchTime))
    /\ UNCHANGED <<sanityClient, description, extraction>>
    /\ UNCHANGED <<clockVars, amazonVars, engineVars>>

\* refreshBrands without the two assignments: return getBrands()
refreshBrandsNoEvict ==
    /\ brandCall.pc = "idle"
    /\ BrandsStep("refreshBrands", GetBrandsStart(cachedBrands, lastFetchTime))
    /\ UNCHANGED <<sanityClient, description, extraction>>
    /\ UNCHANGED <<clockVars, amazonVars, engineVars>>

\* cachedBrands = null; lastFetchTime = null; return getBrands()
refreshBrands ==
    /\ brandCall.pc = "idle"
    /\ BrandsStep("refreshBrands", GetBrandsStart(<<>>, 0))
    /\ UNCHANGED <<sanityClient, description, extraction>>
    /\ UNCHANGED <<clockVars, amazonVars, engineVars>>

\* The awaited sanityClient.fetch settles and getBrands runs to its return.
FetchResponds(response) ==
    /\ brandCall.pc = "fetching"
    /\ ExtractStep(brandCall.op, GetBrandsEnd(response))
    /\ UNCHANGED <<sanityClient, description>>
    /\ UNCHANGED <<clockVars, amazonVars, engineVars>>

\* A caller starts extractProductsFromDescription(description).
extractProductsFromDescription ==
    /\ brandCall.pc = "idle"
    /\ IF ~Truthy(description)
       THEN /\ extraction' = <<NoExtraction>>
            /\ UNCHANGED <<cachedBrands, lastFetchTime, cachedRecords,
                           brandCall, returned>>
       ELSE ExtractStep("extract",
                        GetBrandsStart(cachedBrands, lastFetchTime))
    /\ UNCHANGED <<sanityClient, description>>
    /\ UNCHANGED <<clockVars, amazonVars, engineVars>>

ContentInit ==
    /\ sanityClient = FALSE
    /\ cachedBrands = <<>>
    /\ lastFetchTime = 0
    /\ cachedRecords = <<>>
    /\ brandCall = IdleBrandCall
    /\ returned = <<>>
    /\ extraction = <<>>
    /\ client = FALSE
    /\ posts = <<>>
    /\ run = [r \in RunIds |-> IdleRun]
    /\ isFirstRun = TRUE

AmazonInit ==
    /\ now = Now0
    /\ ticks = 0
    /\ config = [accessKey |-> Null, secretKey |-> Null,
                 partnerTag |-> DefaultPartnerTag]
    /\ cache = [k \in {} |-> Null]
    /\ lastRequestTime = 0
    /\ proc = [p \in Callers |-> IdleProc]
    /\ requests = <<>>
    /\ calls = <<>>
    /\ ndone = 0
    /\ ncalls = 0

vars == <<clockVars, amazonVars, contentVars, engineVars>>

\* The retail client under direct searches of two concurrent callers.
\* A request is answered with an item, with no item, or with HTTP 429.
Init == AmazonInit /\ ContentInit /\ description = Null

Next ==
    \/ \E ak \in Credentials, sk \in Credentials, tag \in PartnerTags :
          initAmazon(ak, sk, tag)
    \/ \E d \in TickSteps : Tick(d)
    \/ \E p \in Callers, q \in {TermElf, TermOil} : searchAmazonProduct(p, q)
    \/ \E p \in Callers : TimerFires(p)
    \/ \E p \in Callers, o \in {"found", "noItems", "http429"} : Respond(p, o)

Spec == Init /\ [][Next]_vars

\* The retail client under the searches of one caller, each awaited before
\* the next starts, with every kind of answer.
SeqNext ==
    \/ \E ak \in Credentials, sk \in Credentials, tag \in PartnerTags :
          initAmazon(ak, sk, tag)
    \/ \E d \in TickSteps : Tick(d)
    \/ \E q \in SearchTerms : searchAmazonProduct(1, q)
    \/ TimerFires(1)
    \/ \E o \in Outcomes : Respond(1, o)

SeqSpec == Init /\ [][SeqNext]_vars

----------------------------------------------------------------------------
(* Enrichment runs *)

MaxProducts == 2       \* length of the lists handed to enrichProductsWithAmazon

UrlShopmyA == <<"h","t","t","p","s",":","/","/","s","h","o","p","m","y",".","u","s","/","a">>
UrlShopmyB == <<"h","t","t","p","s",":","/","/","s","h","o","p","m","y",".","u","s","/","b">>
UrlAmznX == <<"h","t","t","p","s",":","/","/","a","m","z","n",".","t","o","/","x">>

\* A record with an affiliate-shortener link only
ProductShopmy ==
    MakeProduct(<<"E","l","f">>, <<"O","i","l">>, "skincare", UrlShopmyA, Null, UrlShopmyA)
\* A record whose retail link was found in the description
ProductAmazon ==
    MakeProduct(<<"E","l","f">>, <<"G","e","l">>, "other", Null, UrlAmznX, UrlAmznX)
\* A record with no brand and an empty name: searchQuery is "Unknown"
ProductUnknown ==
    MakeProduct(Unknown, <<>>, "other", UrlShopmyB, Null, UrlShopmyB)
\* A record of another caller, without searchQuery: the query is rebuilt from
\* brand and name, and is too short
ProductShort ==
    [MakeProduct(Unknown, <<"O","x">>, "other", UrlShopmyB, Null, UrlShopmyB)
        EXCEPT !.searchQuery = Null]

\* A record of another caller with no brand and an empty name, whose
\* searchQuery `${brand} ${name}` was not trimmed: "Unknown "
ProductUntrimmed ==
    [MakeProduct(Unknown, <<>>, "other", UrlShopmyB, Null, UrlShopmyB)
        EXCEPT !.searchQuery = Unknown \o <<" ">>]

ProductChoices ==
    {ProductShopmy, ProductAmazon, ProductUnknown, ProductShort,
     ProductUntrimmed}

ProductLists ==
    UNION { [1..n -> ProductChoices] : n \in 1..MaxProducts }

\* The retail client under the enrichment runs of one caller.
EnrichNext ==
    \/ \E ak \in Credentials, sk \in Credentials, tag \in PartnerTags :
          initAmazon(ak, sk, tag)
    \/ Tick(HalfInterval)
    \/ \E products \in ProductLists : enrichProductsWithAmazon(1, products)
    \/ TimerFires(1)
    \/ \E o \in {"found", "noItems"} : Respond(1, o)
    \/ EnrichResume(1)

EnrichSpec == Init /\ [][EnrichNext]_vars

----------------------------------------------------------------------------
(* The brand directory under getBrands and refreshBrands calls *)

MaxRecords == 2        \* length of the record lists a fetch resolves to

RecordChoices ==
    {RecBenefit, RecBenefitCosmetics, RecElf, RecElfUpper, RecNoName,
     RecBlankAlias}

Responses ==
    {FetchThrows, FetchNull}
    \cup {FetchList(brands) :
            brands \in UNION { [1..n -> RecordChoices] : n \in 0..MaxRecords }}

BrandNext ==
    \/ initBrands
    \/ getBrands
    \/ refreshBrands
    \/ \E response \in Responses : FetchResponds(response)
    \/ Tick(HalfDuration)

BrandSpec == Init /\ [][BrandNext]_vars

----------------------------------------------------------------------------
(* The parser under descriptions of a few lines; the clock stands still,  *)
(* the brand list is fetched once and then served from the cache          *)

MaxLines == 3          \* lines of a description

LineSection == <<"P","R","O","D","U","C","T","S",":"," ","B","e","n","e","f","i","t"," ","C","o","s","m","e","t","i","c","s"," ","F","o","u","n","d","a","t","i","o","n"," ","-"," ","h","t","t","p","s",":","/","/","s","h","o","p","m","y",".","u","s","/","a">>
LineSameUrl == <<"B","e","n","e","f","i","t"," ","T","i","n","t"," ","-"," ","h","t","t","p","s",":","/","/","s","h","o","p","m","y",".","u","s","/","a">>
LineAlias == <<"e","l","f"," ","L","i","p"," ","O","i","l"," ","-"," ","h","t","t","p","s",":","/","/","a","m","z","n",".","t","o","/","b">>
LineBlank == <<>>
LineRstyle == <<"G","l","o","w"," ","S","e","r","u","m"," ","h","t","t","p","s",":","/","/","r","s","t","y","l","e",".","m","e","/","d">>
LineOther == <<"R","a","r","e"," ","B","l","u","s","h",":"," ","h","t","t","p","s",":","/","/","e","x","a","m","p","l","e",".","c","o","m","/","c">>

DescriptionLines ==
    {LineSection, LineSameUrl, LineAlias, LineBlank, LineRstyle, LineOther}

RECURSIVE JoinLines(_)
JoinLines(lines) ==
    IF Len(lines) = 1 THEN lines[1]
    ELSE lines[1] \o <<"\n">> \o JoinLines(Tail(lines))

Descriptions ==
    {Null} \cup {JoinLines(lines) :
                    lines \in UNION { [1..n -> DescriptionLines] : n \in 1..MaxLines }}

\* The records of the remote directory, in the order the query returns them
RemoteCatalog == <<RecBenefit, RecBenefitCosmetics, RecElf>>

ParseInit == AmazonInit /\ ContentInit /\ description \in Descriptions

ParseNext ==
    \/ initBrands
    \/ extractProductsFromDescription
    \/ \E response \in {FetchThrows, FetchList(RemoteCatalog)} :
          FetchResponds(response)

ParseSpec == ParseInit /\ [][ParseNext]_vars

----------------------------------------------------------------------------
(* The parser under one product text that ends in dashes, white space and *)
(* quote marks, in a PRODUCTS section and on a line of its own            *)

MaxTail == 3           \* characters after the product text

TailChars == {Hyphen, EnDash, EmDash, " ", Quote}

Tails == UNION { [1..n -> TailChars] : n \in 0..MaxTail }

TextGlowTint == <<"G","l","o","w"," ","T","i","n","t">>
HeadProducts == <<"P","R","O","D","U","C","T","S",":"," ">>
UrlShopmyE == <<" ","h","t","t","p","s",":","/","/","s","h","o","p","m","y",".","u","s","/","e">>

TailDescriptions ==
    {head \o TextGlowTint \o tail \o UrlShopmyE :
        head \in {Null, HeadProducts}, tail \in Tails}

TailInit == AmazonInit /\ ContentInit /\ description \in TailDescriptions

TailSpec == TailInit /\ [][ParseNext]_vars

----------------------------------------------------------------------------
(* The parser under descriptions made of the lines of the scenarios, with *)
(* and without the PRODUCTS: head line                                    *)

MaxScenarioLines == 2  \* product lines of a scenario description

LineFarmacy == <<"F","a","r","m","a","c","y"," ","G","r","e","e","n"," ","C","l","e","a","n"," ","C","l","e","a","n","s","i","n","g"," ","B","a","l","m"," ","-"," ","h","t","t","p","s",":","/","/","g","o",".","s","h","o","p","m","y",".","u","s","/","a","b","c","1","2","3">>
LineCerave == <<"C","e","r","a","V","e"," ","M","o","i","s","t","u","r","i","z","i","n","g"," ","C","r","e","a","m"," ","h","t","t","p","s",":","/","/","a","m","z","n",".","t","o","/","x","y","z","7","8","9">>
LineBothKinds == <<"G","l","o","w"," ","S","e","r","u","m"," ","-"," ","h","t","t","p","s",":","/","/","s","h","o","p","m","y",".","u","s","/","a","m","a","z","o","n",".","c","o","m","/","f">>
LineTagged == <<"M","i","l","k"," ","T","o","n","e","r"," ","-"," ","h","t","t","p","s",":","/","/","a","m","a","z","o","n",".","c","o","m","/","d","p","/","g","?","t","a","g","=","o","t","h","e","r","-","2","0">>
LineUntagged == <<"H","a","i","r"," ","O","i","l"," ","-"," ","h","t","t","p","s",":","/","/","a","m","a","z","o","n",".","c","o","m","/","d","p","/","h">>
LineBracketed == <<"B","o","d","y"," ","W","a","s","h"," ","<","h","t","t","p","s",":","/","/","a","m","a","z","o","n",".","c","o","m",">">>
LineOtherDomain == <<"R","a","r","e"," ","B","l","u","s","h"," ","-"," ","h","t","t","p","s",":","/","/","e","x","a","m","p","l","e",".","c","o","m","/","c">>
\* A product whose link is on the line after its name
LineNextLine == <<"C","h","e","e","k"," ","T","i","n","t","\n","h","t","t","p","s",":","/","/","s","h","o","p","m","y",".","u","s","/","k">>

ScenarioLines ==
    {LineFarmacy, LineCerave, LineBothKinds, LineTagged, LineUntagged,
     LineBracketed, LineOtherDomain, LineNextLine}

HeadLine == <<"P","R","O","D","U","C","T","S",":","\n">>
NewLine == <<"\n">>

ScenarioDescriptions ==
    {head \o JoinLines(lines) \o end :
        head \in {Null, HeadLine},
        end \in {Null, NewLine},
        lines \in UNION { [1..n -> ScenarioLines] : n \in 1..MaxScenarioLines }}

\* Scenario A
ScenarioA == HeadLine \o LineFarmacy \o NewLine \o LineCerave \o NewLine

ScenarioInit == AmazonInit /\ ContentInit /\ description \in ScenarioDescriptions

ScenarioSpec == ScenarioInit /\ [][ParseNext]_vars

----------------------------------------------------------------------------
(* The retail client under the searches of one caller with three queries, *)
(* the clock advancing by half an interval or by an interval              *)

TermGel == <<"g","e","l">>

GateNext ==
    \/ \E ak \in Credentials, sk \in Credentials, tag \in PartnerTags :
          initAmazon(ak, sk, tag)
    \/ \E d \in {HalfInterval, MIN_REQUEST_INTERVAL_MS} : Tick(d)
    \/ \E q \in {TermElf, TermOil, TermGel} : searchAmazonProduct(1, q)
    \/ TimerFires(1)
    \/ \E o \in {"found", "noItems"} : Respond(1, o)

GateSpec == Init /\ [][GateNext]_vars

----------------------------------------------------------------------------
(* createDraftBlogPost under articles of a few pieces and product lists of *)
(* up to two records                                                       *)

UrlShopmyDollar == <<"h","t","t","p","s",":","/","/","s","h","o","p","m","y",".","u","s","/","a","$","1">>

\* A record with both links, one with none, and one whose affiliate link
\* holds the characters $1
ProductBoth ==
    MakeProduct(<<"E","l","f">>, <<"O","i","l">>, "skincare", UrlShopmyA, UrlAmznX, UrlShopmyA)
ProductNoLink ==
    MakeProduct(<<"E","l","f">>, <<"G","e","l">>, "other", Null, Null, Null)
ProductDollar ==
    MakeProduct(<<"E","l","f">>, <<"O","i","l">>, "skincare", UrlShopmyDollar, UrlAmznX, UrlShopmyDollar)

DraftProducts ==
    {ProductShopmy, ProductAmazon, ProductBoth, ProductNoLink, ProductDollar}

DraftLists ==
    {<<>>} \cup {<<p>> : p \in DraftProducts}
           \cup {<<p, q>> : p \in DraftProducts, q \in DraftProducts}

TextPiece(text) == Piece("text", 0, text, Null, Null)
RefPiece(n, text) == Piece("ref", n, text, Null, Null)

TextIntro == <<"<","p",">","I"," ","l","o","v","e"," ">>
TextOil == <<"t","h","e"," ","o","i","l">>
TextGel == <<"t","h","i","s"," ","g","e","l">>

\* An article that names product 1 twice, one that names products 1 and 2,
\* and one that names product 3 and has an anchor without text
Articles ==
    {<<TextPiece(TextIntro), RefPiece(1, TextOil), RefPiece(1, TextGel)>>,
     <<RefPiece(1, TextOil), TextPiece(TextIntro), RefPiece(2, TextGel)>>,
     <<RefPiece(2, Null), RefPiece(3, TextGel)>>}

VidA == <<"d","Q","w","4">>
VidB == <<"x","9","Z","k">>

DraftNext ==
    \/ initSanity
    \/ \E video \in {VidA, VidB}, html \in Articles, productLinks \in DraftLists :
          createDraftBlogPost(video,
              [blogContent |-> html, products |-> productLinks], productLinks)

DraftSpec == Init /\ [][DraftNext]_vars

----------------------------------------------------------------------------
(* The startup run and the cron runs of processNewContent over the videos *)
(* of two channels                                                         *)

\* The TikTok video whose id, without the prefix, is that of VidA
VidT == TikTokPrefix \o VidA

VideoLists == {<<>>, <<VidA>>, <<VidB, VidA>>, <<VidT, VidA>>}

Analyses ==
    {<<>>,
     <<[blogContent |-> <<RefPiece(1, TextOil)>>, products |-> <<ProductBoth>>]>>}

RunNext ==
    \/ initSanity
    \/ \E r \in RunIds : processNewContent(r)
    \/ \E r \in RunIds, videos \in VideoLists : VideosFetched(r, videos)
    \/ \E r \in RunIds : CheckResolves(r)
    \/ \E r \in RunIds, analysis \in Analyses : AnalysisResolves(r, analysis)
    \/ \E r \in RunIds, created \in BOOLEAN : DraftSettles(r, created)

RunSpec == Init /\ [][RunNext]_vars

----------------------------------------------------------------------------
(* The retail client under the searches and the enrichment runs of one    *)
(* caller, configured or not                                               *)

ClientLists == {<<ProductShopmy>>, <<ProductAmazon, ProductShopmy>>}

ClientNext ==
    \/ \E ak \in Credentials, sk \in Credentials, tag \in PartnerTags :
          initAmazon(ak, sk, tag)
    \/ Tick(HalfInterval)
    \/ \E q \in {TermElf, TermOil} : searchAmazonProduct(1, q)
    \/ \E products \in ClientLists : enrichProductsWithAmazon(1, products)
    \/ TimerFires(1)
    \/ \E o \in {"found", "noItems"} : Respond(1, o)
    \/ EnrichResume(1)

ClientSpec == Init /\ [][ClientNext]_vars

----------------------------------------------------------------------------
(* Enrichment runs over lists that reach past the default maxProducts: the *)
(* head of a list is made of records that have a retail link               *)

\* n records that the loop skips
Filler(n) == [i \in 1..n |-> ProductAmazon]

ProductGel ==
    MakeProduct(<<"E","l","f">>, <<"G","e","l">>, "other", UrlShopmyB, Null, UrlShopmyB)

LongTails ==
    {<<ProductShopmy>>, <<ProductShopmy, ProductGel>>,
     <<ProductGel, ProductShopmy>>, <<ProductUnknown, ProductGel>>}

LongLists ==
    {Filler(n) \o tail :
        n \in (MaxProductsDefault - 2)..MaxProductsDefault, tail \in LongTails}

LongNext ==
    \/ \E ak \in Credentials, sk \in Credentials, tag \in PartnerTags :
          initAmazon(ak, sk, tag)
    \/ Tick(HalfInterval)
    \/ \E products \in LongLists : enrichProductsWithAmazon(1, products)
    \/ TimerFires(1)
    \/ \E o \in {"found", "noItems"} : Respond(1, o)
    \/ EnrichResume(1)

LongSpec == Init /\ [][LongNext]_vars

----------------------------------------------------------------------------
(* Claims about the retail client *)

SameKey(a, b) == getCacheKey(a) = getCacheKey(b)

\* C1: of two searchAmazonProduct calls with the same query, made one after
\* the other while the client is configured and less than 24 hours apart, at
\* most one issues a network request, and the second returns the value of the
\* first, from the cache.
C1_SecondCallFromCache ==
    \A i, j \in 1..Len(calls) :
        ( /\ i < j
          /\ calls[i].seq <= calls[j].after
          /\ SameKey(calls[i].q, calls[j].q)
          /\ calls[i].outcome # "unconfigured"
          /\ calls[j].outcome # "unconfigured"
          /\ calls[j].start - calls[i].start < CACHE_TTL_MS )
        => /\ ~(calls[i].net /\ calls[j].net)
           /\ calls[j].outcome = "cached"
           /\ calls[j].ret = calls[i].ret

\* C2: any two outbound search requests are issued at least
\* MIN_REQUEST_INTERVAL_MS apart, however many searches run concurrently.
C2_RequestsSpaced ==
    \A i, j \in 1..Len(requests) :
        i < j => requests[j].at - requests[i].at >= MIN_REQUEST_INTERVAL_MS

\* C5: searchAmazonProduct never raises: every call returns a result or null,
\* and every kind of failure returns null and leaves a null entry for the
\* query in the cache.
C5_NeverRaises ==
    /\ \A i \in 1..Len(calls) :
          /\ ~calls[i].raised
          /\ calls[i].outcome \in FailureKinds \cup {"noItems"}
                => calls[i].ret = Null /\ calls[i].net
    /\ calls # <<>> =>
          LET c == calls[Len(calls)] IN
          c.outcome \in FailureKinds \cup {"noItems"} =>
              /\ getCacheKey(c.q) \in DOMAIN cache
              /\ cache[getCacheKey(c.q)].data = Null
              /\ cache[getCacheKey(c.q)].timestamp >= c.start
              /\ cache[getCacheKey(c.q)].timestamp <= now

\* A call answered by a network exception and a call answered by HTTP 401
\* have both returned null.
C5_Witness ==
    /\ Len(calls) = 2
    /\ calls[1].outcome = "network" /\ calls[1].ret = Null
    /\ calls[2].outcome = "http401" /\ calls[2].ret = Null

\* C6: enrichment issues no search for a record that already has an amazonUrl
\* and leaves that amazonUrl as it was.
C6_ExistingLinkKept ==
    \A p \in Callers :
        proc[p].op = "enrich" =>
            /\ Len(proc[p].products) = Len(proc[p].input)
            /\ \A i \in 1..Len(proc[p].input) :
                  Truthy(proc[p].input[i].amazonUrl) =>
                      /\ proc[p].products[i].amazonUrl = proc[p].input[i].amazonUrl
                      /\ \A k \in 1..Len(proc[p].searched) : proc[p].searched[k] # i

\* A run has returned in which the first record kept its retail link and the
\* second record was given one by a search.
C6_Witness ==
    /\ isAmazonConfigured
    /\ proc[1].op = "enrich" /\ proc[1].pc = "idle"
    /\ Len(proc[1].input) = 2
    /\ Truthy(proc[1].input[1].amazonUrl)
    /\ proc[1].products[1].amazonUrl = proc[1].input[1].amazonUrl
    /\ ~Truthy(proc[1].input[2].amazonUrl)
    /\ Truthy(proc[1].products[2].amazonUrl)

----------------------------------------------------------------------------
(* Claims about the brand directory *)

\* C4: the list getBrands returns is never empty, whatever the remote fetch
\* resolves to.
C4_NeverEmpty == returned # <<>> => Len(returned[1]) > 0

----------------------------------------------------------------------------
(* Claims about the description parser *)

\* The position of the first candidate with the URL url
FirstWithUrl(cands, url) ==
    Min({i \in 1..Len(cands) : cands[i].originalUrl = url})

\* C3: the array returned by extractProductsFromDescription holds exactly one
\* record per distinct originalUrl of the candidates, that record is the first
\* candidate with the URL, and the records keep the order of those first
\* candidates.
C3_FirstOccurrences ==
    extraction # <<>> =>
        LET cands == extraction[1].candidates
            result == extraction[1].result
        IN /\ \A i \in 1..Len(cands) :
                Cardinality({k \in 1..Len(result) :
                    result[k].originalUrl = cands[i].originalUrl}) = 1
           /\ \A k \in 1..Len(result) :
                /\ \E i \in 1..Len(cands) :
                      cands[i].originalUrl = result[k].originalUrl
                /\ result[k] = cands[FirstWithUrl(cands, result[k].originalUrl)]
           /\ \A k \in 1..Len(result), l \in 1..Len(result) :
                k < l => FirstWithUrl(cands, result[k].originalUrl)
                           < FirstWithUrl(cands, result[l].originalUrl)

\* Two candidates with one URL and different names went through the filter,
\* and the later one was dropped.
C3_Witness ==
    /\ extraction # <<>>
    /\ \E i, j \in 1..Len(extraction[1].candidates) :
          /\ i < j
          /\ extraction[1].candidates[i].originalUrl
                = extraction[1].candidates[j].originalUrl
          /\ extraction[1].candidates[i].name # extraction[1].candidates[j].name
    /\ Len(extraction[1].result) < Len(extraction[1].candidates)
    /\ Len(extraction[1].result) > 1

\* C7: when the PRODUCTS section yields at least one product, the line scan
\* does not run: the candidates and the result are records of the section
\* only.
C7_SectionPreferred ==
    (extraction # <<>> /\ Len(extraction[1].primary) > 0) =>
        /\ ~extraction[1].scanned
        /\ extraction[1].parsed = <<>>
        /\ extraction[1].candidates = extraction[1].primary
        /\ \A k \in 1..Len(extraction[1].result) :
              \E i \in 1..Len(extraction[1].primary) :
                  extraction[1].result[k] = extraction[1].primary[i]

\* Some line of parsed would be pushed with a record that is not in primary
PushedOutside(parsed, primary) ==
    \E n \in 1..Len(parsed) :
        /\ parsed[n].pushed
        /\ \A i \in 1..Len(primary) : primary[i] # parsed[n].product

\* The section gave a product, and a line scan of the same description would
\* have pushed a record that the section did not give.
C7_Witness ==
    /\ extraction # <<>>
    /\ Len(extraction[1].primary) > 0
    /\ returned # <<>>
    /\ PushedOutside(ScanLines(SplitLines(description), returned[1]),
                     extraction[1].primary)

\* C8: a line that the line scan parsed is pushed as a product if and only
\* if its URL was classified as an affiliate-shortener link (shopmy.us,
\* shop-links.co) or as a retail link (amazon.com, amzn.to, amzn.com).
C8_PushedIffRecognized ==
    extraction # <<>> =>
        \A i \in 1..Len(extraction[1].parsed) :
            extraction[1].parsed[i].pushed
                <=> (IsShopmyUrl(extraction[1].parsed[i].url)
                        \/ IsAmazonUrl(extraction[1].parsed[i].url))

\* The listed brands that match the start of text the way extractBrandAndName
\* tests it
MatchingIn(cleaned, lowerName, beautyBrands) ==
    {beautyBrands[i] : i \in
        {j \in 1..Len(beautyBrands) :
            BrandPrefix(cleaned, lowerName, beautyBrands[j])}}

MatchingCleaned(cleaned, beautyBrands) ==
    MatchingIn(cleaned, toLowerCase(cleaned), beautyBrands)

MatchingBrands(text, beautyBrands) ==
    MatchingCleaned(trim(trimEnd(StripTrailing(text, Dashes, FALSE))),
                    beautyBrands)

\* b starts with a followed by a space
SpacedPrefix(a, b) ==
    /\ Len(b) > Len(a) + 1
    /\ SubSeq(b, 1, Len(a)) = a
    /\ b[Len(a) + 1] = " "

TextBenefitCosmeticsFoundation == <<"B","e","n","e","f","i","t"," ","C","o","s","m","e","t","i","c","s"," ","F","o","u","n","d","a","t","i","o","n">>
NameFoundation == <<"F","o","u","n","d","a","t","i","o","n">>

\* The split sp of a text that the listed brands ms match
LongerWins(sp, ms) ==
    /\ \A a \in ms, b \in ms :
          SpacedPrefix(a, b) =>
              /\ sp.brand # a
              /\ sp.brand \in ms
              /\ \A c \in ms : Len(c) <= Len(sp.brand)
    /\ (sp.text = TextBenefitCosmeticsFoundation
          /\ BrandBenefitCosmetics \in ms /\ BrandBenefit \in ms)
         => (sp.brand = BrandBenefitCosmetics /\ sp.name = NameFoundation)

\* C9: when two listed brands match the start of a candidate text, one a
\* prefix of the other followed by a space, the brand extracted is not the
\* shorter one but the longest listed brand that matches; "Benefit Cosmetics
\* Foundation" gives brand "Benefit Cosmetics" and name "Foundation".
C9_LongerBrandWins ==
    (extraction # <<>> /\ returned # <<>>) =>
        \A k \in 1..Len(extraction[1].splits) :
            LongerWins(extraction[1].splits[k],
                       MatchingBrands(extraction[1].splits[k].text, returned[1]))

\* "Benefit Cosmetics Foundation" was split against a list that holds both
\* "Benefit" and "Benefit Cosmetics".
C9_Witness ==
    /\ extraction # <<>>
    /\ returned # <<>>
    /\ \E k \in 1..Len(extraction[1].splits) :
          /\ extraction[1].splits[k].text = TextBenefitCosmeticsFoundation
          /\ extraction[1].splits[k].brand = BrandBenefitCosmetics
          /\ \E i, j \in 1..Len(returned[1]) :
                returned[1][i] = BrandBenefit
                    /\ returned[1][j] = BrandBenefitCosmetics

\* The remote records that list the name a as an alias
OwnersOf(a, records) ==
    {records[i].name : i \in
        {j \in 1..Len(records) :
            /\ records[j].aliases # <<>>
            /\ \E n \in 1..Len(records[j].aliases[1]) :
                  records[j].aliases[1][n] = a}}

\* The split sp of a text that the listed brands ms match, the longest of
\* them an alias of the records
CanonicalWins(sp, ms, records) ==
    \A a \in ms :
        (OwnersOf(a, records) # {} /\ \A b \in ms : Len(b) <= Len(a))
            => sp.brand \in OwnersOf(a, records)

\* C10: when the brand list comes from the remote records and the entry that
\* matches the candidate text is an alias, the brand extracted is the
\* canonical name of the record that owns the alias.
C10_AliasGivesCanonical ==
    (extraction # <<>> /\ returned # <<>> /\ cachedRecords # <<>>
        /\ returned = cachedBrands) =>
        \A k \in 1..Len(extraction[1].splits) :
            CanonicalWins(extraction[1].splits[k],
                          MatchingBrands(extraction[1].splits[k].text, returned[1]),
                          cachedRecords)
----------------------------------------------------------------------------
(* Claims about the clean-up of product names *)

\* The stripping steps of extractBrandAndName, applied to a name
StripAgain(name) ==
    CleanName(trim(trimEnd(StripTrailing(name, Dashes, FALSE))))

EndsInDash(name) == Len(name) > 0 /\ name[Len(name)] \in Dashes

\* C11: a product text that ends in dashes, white space and quote marks
\* gives, in the PRODUCTS section and in the line scan, a name that ends in
\* no dash and holds no quote mark, and the stripping of extractBrandAndName
\* leaves that name as it is.
C11_NameStripped ==
    extraction # <<>> =>
        \A k \in 1..Len(extraction[1].splits) :
            /\ ~EndsInDash(extraction[1].splits[k].name)
            /\ \A i \in 1..Len(extraction[1].splits[k].name) :
                  extraction[1].splits[k].name[i] # Quote
            /\ StripAgain(extraction[1].splits[k].name)
                  = extraction[1].splits[k].name

----------------------------------------------------------------------------
(* Claims about the scenarios *)

BrandFarmacy == <<"F","a","r","m","a","c","y">>
BrandCerave == <<"C","e","r","a","V","e">>
NameGreenClean == <<"G","r","e","e","n"," ","C","l","e","a","n"," ","C","l","e","a","n","s","i","n","g"," ","B","a","l","m">>
NameMoisturizingCream == <<"M","o","i","s","t","u","r","i","z","i","n","g"," ","C","r","e","a","m">>
UrlGoShopmyAbc == <<"h","t","t","p","s",":","/","/","g","o",".","s","h","o","p","m","y",".","u","s","/","a","b","c","1","2","3">>
UrlAmznXyz == <<"h","t","t","p","s",":","/","/","a","m","z","n",".","t","o","/","x","y","z","7","8","9">>

Lists(beautyBrands, b) == \E i \in 1..Len(beautyBrands) : beautyBrands[i] = b

\* Scenario A was parsed with a brand list that holds Farmacy and CeraVe
ScenarioAParsed ==
    /\ description = ScenarioA
    /\ extraction # <<>>
    /\ returned # <<>>
    /\ Lists(returned[1], BrandFarmacy)
    /\ Lists(returned[1], BrandCerave)

\* C12: Scenario A gives two records, in this order: Farmacy "Green Clean
\* Cleansing Balm" with the ShopMy link and type skincare, and CeraVe
\* "Moisturizing Cream" with the Amazon link and type skincare.
C12_ScenarioA ==
    ScenarioAParsed =>
        /\ Len(extraction[1].result) = 2
        /\ extraction[1].result[1].brand = BrandFarmacy
        /\ extraction[1].result[1].name = NameGreenClean
        /\ extraction[1].result[1].shopmyUrl = UrlGoShopmyAbc
        /\ extraction[1].result[1].type = "skincare"
        /\ extraction[1].result[2].brand = BrandCerave
        /\ extraction[1].result[2].name = NameMoisturizingCream
        /\ extraction[1].result[2].amazonUrl = UrlAmznXyz
        /\ extraction[1].result[2].type = "skincare"

----------------------------------------------------------------------------
(* Claims about the timing of the retail client *)

\* C13: the requests of searches made one after the other start at least
\* MIN_REQUEST_INTERVAL_MS apart, so the third request of three searches
\* starts at least 2 * MIN_REQUEST_INTERVAL_MS after the first.
C13_SequentialSpaced ==
    \A i, j \in 1..Len(requests) :
        i < j => requests[j].at - requests[i].at
                    >= (j - i) * MIN_REQUEST_INTERVAL_MS

\* Three searches with three different queries have each sent a request, the
\* third exactly two intervals after the first.
C13_Witness ==
    /\ Len(requests) = 3
    /\ Len(calls) = 3
    /\ \A i, j \in 1..3 : i # j => ~SameKey(requests[i].q, requests[j].q)
    /\ requests[3].at - requests[1].at = 2 * MIN_REQUEST_INTERVAL_MS

\* The query of the search that starts in this step
StartedQuery == IF calls' # calls THEN calls'[Len(calls')].q ELSE proc'[1].q

\* A search that starts while the client is configured is answered from the
\* cache only by an entry younger than CACHE_TTL_MS, and goes to the network
\* when the entry of its key is that old or older.
TtlAtStart ==
    (ncalls' = ncalls + 1 /\ isAmazonConfigured) =>
        LET key == getCacheKey(StartedQuery) IN
        /\ calls' # calls =>
              /\ key \in DOMAIN cache
              /\ now - cache[key].timestamp < CACHE_TTL_MS
              /\ calls'[Len(calls')].outcome = "cached"
              /\ calls'[Len(calls')].ret = cache[key].data
        /\ (key \in DOMAIN cache /\ now - cache[key].timestamp >= CACHE_TTL_MS) =>
              /\ calls' = calls
              /\ proc'[1].pc \in {"sleep", "fetch"}

\* The outcome of a request replaces the entry of the query's key.
EntryReplaced ==
    (ndone' = ndone + 1 /\ calls'[Len(calls')].net) =>
        LET c == calls'[Len(calls')] IN
        /\ getCacheKey(c.q) \in DOMAIN cache'
        /\ cache'[getCacheKey(c.q)] = [data |-> c.ret, timestamp |-> now]

\* C14: a cache entry answers a search only while it is younger than 24
\* hours; a search whose entry is 24 hours old or older sends a request, whose
\* outcome replaces the entry; queries that differ in letter case or outer
\* white space only have one entry, under one key.
C14_TtlRespected ==
    /\ [](DOMAIN cache \subseteq {TermElf, TermOil})
    /\ [][TtlAtStart /\ EntryReplaced]_vars

\* A result was saved for "elf"; the search for " Elf" that started exactly
\* 24 hours later sent a request, and its outcome is the entry now.
C14_Witness ==
    \E i, j \in 1..Len(calls) :
        /\ i < j
        /\ calls[i].q = TermElf /\ calls[i].outcome = "found"
        /\ calls[j].q = TermElfSpaced /\ calls[j].net
        /\ calls[j].seq = calls[i].seq + 1
        /\ calls[j].start - calls[i].start = CACHE_TTL_MS
        /\ cache[TermElf].timestamp = calls[j].start
        /\ cache[TermElf].data = calls[j].ret

----------------------------------------------------------------------------
(* Claims about the brand directory *)

\* A snapshot was taken less than CACHE_DURATION_MS ago and not evicted since
SnapshotYoung ==
    lastFetchTime # 0 /\ now - lastFetchTime < CACHE_DURATION_MS

\* A call returns in this step
CallReturns ==
    /\ brandCall'.pc = "idle"
    /\ \/ brandCall.pc = "fetching"
       \/ brandCall' # brandCall
       \/ returned' # returned
       \/ lastFetchTime' # lastFetchTime

\* The call that returns in this step is a getBrands call answered from the
\* cache
CacheHit ==
    brandCall.pc = "idle" /\ brandCall'.op = "getBrands" /\ SnapshotYoung

\* C15: a getBrands call made less than 30 minutes after a snapshot was
\* taken returns the cached list and fetches nothing; every call that
\* returns otherwise, with the remote list or with the built-in list after a
\* failed or empty fetch, takes a snapshot: it caches the list it returns
\* and sets the timestamp to the present.
C15_CachedForDuration ==
    [][ /\ (getBrands /\ SnapshotYoung) =>
              /\ brandCall'.pc = "idle"
              /\ cachedBrands # <<>>
              /\ returned' = cachedBrands
              /\ UNCHANGED <<cachedBrands, lastFetchTime>>
        /\ (CallReturns /\ ~CacheHit) =>
              /\ lastFetchTime' = now
              /\ cachedBrands' # <<>>
              /\ returned' = cachedBrands'
      ]_vars

\* The fetch failed and the built-in list was cached; the getBrands call
\* made half a cache duration later returned it without a fetch.
C15_Witness ==
    /\ sanityClient
    /\ cachedBrands = <<FALLBACK_BRANDS>>
    /\ returned = cachedBrands
    /\ brandCall = [pc |-> "idle", op |-> "getBrands",
                    start |-> lastFetchTime + HalfDuration, net |-> FALSE,
                    path |-> "cache"]

\* No two entries of list are equal when letter case is ignored
UniqueFolded(list) ==
    \A i, j \in 1..Len(list) :
        i < j => toLowerCase(list[i]) # toLowerCase(list[j])

\* C16: the entries of every list getBrands returns are unique after
\* case-insensitive folding.
C16_UniqueIgnoringCase == returned # <<>> => UniqueFolded(returned[1])

----------------------------------------------------------------------------
(* Claims about the links of a record *)

\* The link fields of the record p agree with the kind of its URL
OneKind(p) ==
    /\ ~(Truthy(p.shopmyUrl) /\ Truthy(p.amazonUrl))
    /\ IsShopmyUrl(p.originalUrl) =>
          p.shopmyUrl = p.originalUrl /\ p.amazonUrl = Null
    /\ (~IsShopmyUrl(p.originalUrl) /\ IsAmazonUrl(p.originalUrl)) =>
          p.shopmyUrl = Null /\ Truthy(p.amazonUrl)
    /\ (~IsShopmyUrl(p.originalUrl) /\ ~IsAmazonUrl(p.originalUrl)) =>
          p.shopmyUrl = Null /\ p.amazonUrl = Null

\* C18: every record the parser makes has shopmyUrl set, or amazonUrl set, or
\* neither when its URL is on no affiliate-shortener and no retail domain,
\* never both; a URL of both kinds sets shopmyUrl only.
C18_OneLinkKind ==
    extraction # <<>> =>
        \A k \in 1..Len(extraction[1].candidates) :
            OneKind(extraction[1].candidates[k])

\* A URL of both kinds was classified as an affiliate-shortener link, and a
\* URL of neither kind was left without a link.
C18_Witness ==
    /\ extraction # <<>>
    /\ \E k \in 1..Len(extraction[1].candidates) :
          /\ IsShopmyUrl(extraction[1].candidates[k].originalUrl)
          /\ IsAmazonUrl(extraction[1].candidates[k].originalUrl)
          /\ Truthy(extraction[1].candidates[k].shopmyUrl)
          /\ extraction[1].candidates[k].amazonUrl = Null
    /\ \E k \in 1..Len(extraction[1].candidates) :
          /\ ~IsShopmyUrl(extraction[1].candidates[k].originalUrl)
          /\ ~IsAmazonUrl(extraction[1].candidates[k].originalUrl)
          /\ extraction[1].candidates[k].shopmyUrl = Null
          /\ extraction[1].candidates[k].amazonUrl = Null

\* The retail link a carries a tag parameter unless it is on the amzn.to
\* shortener, and tagging it again changes nothing
Tagged(a) ==
    /\ includes(a, DomAmznTo) \/ HasTagParam(a)
    /\ addAmazonAssociateTag(a) = a

\* C19: the amazonUrl stored for a retail URL carries a tag parameter, or is
\* the URL itself when that is on amzn.to, and the tagging step applied to it
\* again leaves it as it is.
C19_TagIdempotent ==
    extraction # <<>> =>
        \A k \in 1..Len(extraction[1].candidates) :
            Truthy(extraction[1].candidates[k].amazonUrl) =>
                /\ Tagged(extraction[1].candidates[k].amazonUrl)
                /\ includes(extraction[1].candidates[k].originalUrl, DomAmznTo)
                     => extraction[1].candidates[k].amazonUrl
                            = extraction[1].candidates[k].originalUrl

\* The search query of product, trimmed, is empty, "Unknown" or shorter than
\* three characters
TooAmbiguous(product) ==
    \/ trim(BuildSearchQuery(product)) = <<>>
    \/ trim(BuildSearchQuery(product)) = Unknown
    \/ Len(trim(BuildSearchQuery(product))) < 3

----------------------------------------------------------------------------
(* Claims about the section of the description, the directory's failures, *)
(* the enrichment loop and the frame of the retail client                 *)

\* Two or more capital letters and then a colon, at position j of s
RECURSIVE CapitalsEnd(_, _)
CapitalsEnd(s, j) ==
    IF j <= Len(s) /\ s[j] \in UpperSet THEN CapitalsEnd(s, j + 1) ELSE j

CapitalLabelAt(s, j) ==
    CapitalsEnd(s, j) - j >= 2 /\ CharAt(s, CapitalsEnd(s, j)) = ":"

\* A section header starts on the line after position e: FOLLOW, SUBSCRIBE,
\* BUSINESS or MUSIC in either letter case, or a label in capital letters;
\* or the text ends at e
HeaderFollows(s, lower, e) ==
    \/ e = Len(s) + 1
    \/ /\ s[e] = "\n"
       /\ \/ \E w \in SectionWords : MatchesAt(lower, e + 1, w)
          \/ CapitalLabelAt(s, e + 1)

\* The text from position p up to the next section header or the end
UpToHeader(s, lower, p) ==
    SubSeq(s, p, Min({e \in p..(Len(s) + 1) : HeaderFollows(s, lower, e)}) - 1)

\* The text after the first PRODUCTS header of s up to the next section
\* header or the end, <<>> when s has no such header
SegmentIn(s, lower, heads) ==
    IF heads = {} THEN <<>>
    ELSE << UpToHeader(s, lower, SectionStart(s, lower, Min(heads))) >>

Segment(s) ==
    SegmentIn(s, toLowerCase(s),
              {i \in 1..Len(s) : MatchesAt(toLowerCase(s), i, WordProduct)})

\* The URLs of the name-URL pairs of a text, in order
PairUrlsOf(items) == [i \in 1..Len(items) |-> items[i].url]

PairUrls(text) ==
    PairUrlsOf(SelectSeq(SectionItems(text, ScanUrls(text, 1)), KeepsItem))

OriginalUrls(products) == [i \in 1..Len(products) |-> products[i].originalUrl]

\* C21: the records of the PRODUCTS section are those of every name-URL pair
\* of the text between the header and the next section header (FOLLOW,
\* SUBSCRIBE, BUSINESS, MUSIC, a label in capital letters) or the end of the
\* description: nothing else ends the section earlier.
C21_SegmentToNextHeader ==
    (extraction # <<>> /\ Truthy(description) /\ Segment(description) # <<>>) =>
        OriginalUrls(extraction[1].primary) = PairUrls(Segment(description)[1])

\* C22: getBrands never leaves by an exception, and a call made without a
\* remote client, or whose fetch is rejected or resolves to nothing or to an
\* empty list, returns the built-in list.
C22_FallbackOnFailure ==
    /\ brandCall.pc \in {"idle", "fetching"}
    /\ (brandCall.pc = "idle"
          /\ brandCall.path \in {"noClient", "throw", "null", "empty"})
         => returned = <<FALLBACK_BRANDS>>

\* A call whose fetch was rejected has returned the built-in list.
C22_Witness ==
    /\ brandCall.pc = "idle" /\ brandCall.net
    /\ brandCall.path = "throw"
    /\ returned = <<FALLBACK_BRANDS>>

\* The fetch of a refreshBrands call is awaited
Refreshing == brandCall.pc = "fetching" /\ brandCall.op = "refreshBrands"

\* C25: with a remote client, refreshBrands goes to the remote fetch whatever
\* the age of the cache; while the fetch is awaited the snapshot and its
\* timestamp are gone; and the list the call returns is the new snapshot,
\* stamped with the present.
C25_RefreshRefetches ==
    /\ [](Refreshing => cachedBrands = <<>> /\ lastFetchTime = 0)
    /\ [][ /\ (refreshBrands /\ sanityClient) =>
                 brandCall'.pc = "fetching" /\ brandCall'.net
           /\ (Refreshing /\ brandCall'.pc = "idle") =>
                 /\ returned' # <<>>
                 /\ cachedBrands' = returned'
                 /\ lastFetchTime' = now
         ]_vars

\* A call had returned and cached its list at the present time, and a
\* refreshBrands call is now awaiting the remote fetch with the cache evicted.
C25_Witness ==
    /\ Refreshing
    /\ sanityClient
    /\ ticks = 0 /\ returned # <<>>
    /\ cachedBrands = <<>>

\* The search of an enrichment run of caller 1 is outstanding: it waits at
\* the rate gate or for the answer of the network
Outstanding == proc[1].op = "enrich" /\ proc[1].pc \in {"sleep", "fetch"}

Increasing(seq) == \A j, k \in 1..Len(seq) : j < k => seq[j] < seq[k]

\* C23: an enrichment run searches its records in list order and one at a
\* time: the outstanding search is the one started last, and no search is
\* started while one is outstanding.
C23_OneSearchAtATime ==
    /\ [](proc[1].op = "enrich" => Increasing(proc[1].searched))
    /\ [](Outstanding =>
            /\ Len(proc[1].searched) > 0
            /\ proc[1].searched[Len(proc[1].searched)] = proc[1].i)
    /\ [][Outstanding => proc'[1].searched = proc[1].searched]_vars

\* The search for the first record has resolved with a result and the search
\* for the second record is at the network.
C23_Witness ==
    /\ Outstanding /\ proc[1].pc = "fetch"
    /\ proc[1].searched = <<1, 2>>
    /\ Truthy(proc[1].products[1].amazonUrl)
    /\ ~Truthy(proc[1].input[1].amazonUrl)
    /\ Len(requests) = 2


----------------------------------------------------------------------------
(* Claims about the draft *)

\* The anchor that piece k of the article became in the stored document
\* links to url
LinksTo(post, k, url) ==
    /\ post.htmlContent[k].kind = "link"
    /\ post.htmlContent[k].href = url

\* The stored records of product i keep both of its links
KeepsBothUrls(post, i) ==
    /\ post.featuredProducts[i].shopmyUrl = post.given.productLinks[i].shopmyUrl
    /\ post.featuredProducts[i].amazonUrl = post.given.productLinks[i].amazonUrl
    /\ post.productLinks[i].shopmyUrl = post.given.productLinks[i].shopmyUrl
    /\ post.productLinks[i].amazonUrl = post.given.productLinks[i].amazonUrl

\* C24: in a draft, every anchor of the article on a product that has a
\* shopmyUrl links to the shopmyUrl, every anchor on a product that has an
\* amazonUrl and no shopmyUrl links to the amazonUrl, and the stored records
\* of a product keep both of its links.
C24_ShopmyLinkFirst ==
    \A d \in 1..Len(posts) :
        \A i \in 1..Len(posts[d].given.productLinks) :
            LET p == posts[d].given.productLinks[i] IN
            /\ KeepsBothUrls(posts[d], i)
            /\ \A k \in 1..Len(posts[d].given.blogContent) :
                  PatternMatches(posts[d].given.blogContent[k], i) =>
                      /\ Truthy(p.shopmyUrl) => LinksTo(posts[d], k, p.shopmyUrl)
                      /\ (~Truthy(p.shopmyUrl) /\ Truthy(p.amazonUrl))
                            => LinksTo(posts[d], k, p.amazonUrl)

----------------------------------------------------------------------------
(* Claims about the runs *)

\* C26: whatever way the startup run and the cron runs interleave, the
\* content store never holds two draft posts for one video id.
C26_OneDraftPerVideo ==
    \A i \in 1..Len(posts), j \in 1..Len(posts) :
        posts[i].videoId = posts[j].videoId => i = j

----------------------------------------------------------------------------
(* Claims about the retail client without credentials *)

Unconfigured == config.accessKey = Null \/ config.secretKey = Null

\* The step leaves the network, the cache and the rate gate alone
NoClientEffect ==
    /\ requests' = requests
    /\ cache' = cache
    /\ lastRequestTime' = lastRequestTime

\* The searchAmazonProduct call of the step has returned null
ReturnsNull ==
    /\ proc'[1].pc = "idle"
    /\ ndone' = ndone + 1
    /\ calls'[Len(calls')].ret = Null
    /\ ~calls'[Len(calls')].raised
    /\ ~calls'[Len(calls')].net

\* The enrichProductsWithAmazon call of the step has returned products
ReturnsInput(products) ==
    /\ proc'[1].pc = "idle"
    /\ ~proc'[1].raised
    /\ proc'[1].products = products
    /\ proc'[1].searched = <<>>

\* C27: while the access key or the secret key is missing, a
\* searchAmazonProduct call returns null and an enrichProductsWithAmazon call
\* returns its input as it is, with no request and with the cache and
\* lastRequestTime as they were; initAmazon with a missing key or secret
\* returns false and leaves the configuration as it was.
C27_UnconfiguredNoEffect ==
    [][/\ \A q \in SearchTerms :
              (Unconfigured /\ searchAmazonProduct(1, q))
                  => (ReturnsNull /\ NoClientEffect)
       /\ \A products \in ClientLists :
              (Unconfigured /\ enrichProductsWithAmazon(1, products))
                  => (ReturnsInput(products) /\ NoClientEffect)
       /\ \A ak \in Credentials, sk \in Credentials, tag \in PartnerTags :
              ((ak = Null \/ sk = Null) /\ initAmazon(ak, sk, tag))
                  => /\ ~InitAmazonResult(ak, sk, tag).ret
                     /\ config' = config
                     /\ NoClientEffect]_vars

\* Without credentials a search has returned null and an enrichment run has
\* returned its list, and no request was sent.
C27_Witness ==
    /\ Unconfigured
    /\ Len(calls) = 1
    /\ calls[1].outcome = "unconfigured" /\ calls[1].ret = Null
    /\ proc[1].op = "enrich" /\ proc[1].pc = "idle"
    /\ Len(proc[1].input) = 2
    /\ proc[1].products = proc[1].input
    /\ requests = <<>>
    /\ lastRequestTime = 0

----------------------------------------------------------------------------
(* Claims about what enrichment changes *)

\* The fields of a record that enrichment is not to touch
SameOwnFields(a, b) ==
    /\ a.brand = b.brand
    /\ a.name = b.name
    /\ a.type = b.type
    /\ a.searchQuery = b.searchQuery
    /\ a.shopmyUrl = b.shopmyUrl
    /\ a.originalUrl = b.originalUrl

\* C28: the list of an enrichment run has the length and the order of its
\* input, no record's brand, name, type, searchQuery, shopmyUrl or
\* originalUrl changes, and a record differs from the input record at all
\* only if its amazonUrl was empty and its search returned a result.
C28_OnlyAmazonFieldsSet ==
    \A p \in Callers :
        proc[p].op = "enrich" =>
            /\ Len(proc[p].products) = Len(proc[p].input)
            /\ \A i \in 1..Len(proc[p].input) :
                  /\ SameOwnFields(proc[p].products[i], proc[p].input[i])
                  /\ proc[p].products[i] # proc[p].input[i] =>
                        /\ ~Truthy(proc[p].input[i].amazonUrl)
                        /\ \E k \in 1..Len(proc[p].searched) :
                              proc[p].searched[k] = i
                        /\ Truthy(proc[p].products[i].amazonUrl)

\* A run over two records without retail link has returned: the search for
\* the first found nothing and left it as it was, the search for the second
\* gave it its amazon fields.
C28_Witness ==
    /\ proc[1].op = "enrich" /\ proc[1].pc = "idle"
    /\ Len(proc[1].input) = 2
    /\ proc[1].searched = <<1, 2>>
    /\ proc[1].products[1] = proc[1].input[1]
    /\ proc[1].products[2] # proc[1].input[2]
    /\ Truthy(proc[1].products[2].amazonAsin)

----------------------------------------------------------------------------
(* Claims about searches answered from the cache *)

\* The searchAmazonProduct call of the step has returned ret without a
\* request and without a wait
ReturnsAtOnce(ret) ==
    /\ proc'[1].pc = "idle"
    /\ ndone' = ndone + 1
    /\ calls'[Len(calls')].ret = ret
    /\ ~calls'[Len(calls')].net

\* C29: a searchAmazonProduct call that finds a result in the cache returns
\* it with no request and no wait on the rate gate, and leaves
\* lastRequestTime and the cache, time stamps included, as they were.
C29_CachedSearchNoEffect ==
    [][\A q \in SearchTerms :
          (/\ isAmazonConfigured
           /\ getFromCache(q) # Null
           /\ searchAmazonProduct(1, q))
              => (ReturnsAtOnce(getFromCache(q)) /\ NoClientEffect)]_vars

\* A search was answered by the network and the next one, for the same
\* product and inside the interval of the rate gate, from the cache.
C29_Witness ==
    /\ Len(calls) = 2
    /\ calls[1].net /\ calls[1].ret # Null
    /\ calls[2].outcome = "cached" /\ calls[2].ret = calls[1].ret
    /\ calls[2].start - lastRequestTime < MIN_REQUEST_INTERVAL_MS
    /\ Len(requests) = 1
    /\ proc[1].pc = "idle"

----------------------------------------------------------------------------
(* Claims about the limit of an enrichment run *)

\* C30: with the default options no search is issued for a record past the
\* first 50 positions of the list, whatever the loop did with the records
\* before it, and such a record is returned as it was.
C30_FirstFiftyOnly ==
    \A p \in Callers :
        proc[p].op = "enrich" =>
            \A i \in 1..Len(proc[p].input) :
                i > MaxProductsDefault =>
                    /\ proc[p].products[i] = proc[p].input[i]
                    /\ \A k \in 1..Len(proc[p].searched) : proc[p].searched[k] # i

\* A run has returned whose list had 49 records with a retail link and then
\* two without: the search for the record at the last of the 50 positions
\* gave it a link, and the record after it, which has a usable query and no
\* retail link, is as it was.
C30_Witness ==
    /\ isAmazonConfigured
    /\ proc[1].op = "enrich" /\ proc[1].pc = "idle"
    /\ Len(proc[1].input) = MaxProductsDefault + 1
    /\ proc[1].searched = <<MaxProductsDefault>>
    /\ Truthy(proc[1].products[MaxProductsDefault].amazonUrl)
    /\ ~Truthy(proc[1].input[MaxProductsDefault + 1].amazonUrl)
    /\ ~SkipsQuery(BuildSearchQuery(proc[1].input[MaxProductsDefault + 1]))
    /\ proc[1].products[MaxProductsDefault + 1]
           = proc[1].input[MaxProductsDefault + 1]

====
